---- MODULE Spec2Model ----
(***************************************************************************)
(* Readability-guided annotation engine: term matcher, tooltip injector,   *)
(* markup validator, text-complexity analyzer and the degradation /        *)
(* repair scripts working on the mio_knowledge_chunks store.               *)
(*                                                                         *)
(* Texts are sequences of one-character strings.  Offsets ("position",     *)
(* "end_position") are the 0-based offsets of the Python code; the half-   *)
(* open range [position, end_position) covers text[position+1] ..          *)
(* text[end_position] of the 1-based TLA+ sequence.                        *)
(* Grade levels are integers in hundredths of a grade (round(x, 2) * 100). *)
(***************************************************************************)
EXTENDS Integers, Sequences, FiniteSets, TLC

VARIABLES
    glossary,        \* the glossary loaded for the run (list of entries)
    protocol_text,   \* inject_tooltips: argument protocol_text
    max_tooltips,    \* inject_tooltips: argument max_tooltips
    pc,              \* position of the single-text dry run
    unique_terms,    \* result of find_technical_terms
    updated_text,    \* first result of inject_tooltips
    terms_used,      \* second result of inject_tooltips (term -> definition)
    validation,      \* result of validate_tooltip_injection
    store,           \* table mio_knowledge_chunks: id -> record
    analysis,        \* degraded-protocols-analysis.json (NULL: no file)
    production,      \* a run of task_2_production_update
    repair,          \* a run of repair-degraded-protocols.py
    revert,          \* a run of repair-degraded-protocols-v2.py
    markdown_fix,    \* a run of fix-markdown-errors.py
    updated_protocols, \* protocols-updated-*.json written by update_protocols.py
    update_results,  \* update-report-*.json written by update_protocols.py
    batch,           \* a run of update_protocols.py
    injected_level,  \* history: id -> grade of the text the last production
                     \* update stored for the document (NULL: none)
    complexity,      \* result of a readability function of
                     \* validation-framework.py applied to protocol_text
    insertion        \* a run of insert_protocols (insert_to_supabase.py)

vars == <<glossary, protocol_text, max_tooltips, pc, unique_terms,
          updated_text, terms_used, validation, store, analysis,
          production, repair, revert, markdown_fix,
          updated_protocols, update_results, batch, injected_level,
          complexity, insertion>>

dryRunVars == <<protocol_text, max_tooltips, pc, unique_terms, updated_text,
                terms_used, validation, complexity, insertion>>

storeVars == <<store, analysis, production, repair, revert, markdown_fix,
               updated_protocols, update_results, batch, injected_level>>

-----------------------------------------------------------------------------
(* Characters *)

Lowers == <<"a","b","c","d","e","f","g","h","i","j","k","l","m",
            "n","o","p","q","r","s","t","u","v","w","x","y","z">>
Uppers == <<"A","B","C","D","E","F","G","H","I","J","K","L","M",
            "N","O","P","Q","R","S","T","U","V","W","X","Y","Z">>

LowerSet == {Lowers[i] : i \in 1..26}
UpperSet == {Uppers[i] : i \in 1..26}
AlphaSet == LowerSet \cup UpperSet
DigitSet == {"0","1","2","3","4","5","6","7","8","9"}
WordSet == AlphaSet \cup DigitSet \cup {"_"}
SpaceSet == {" ", "\n", "\t"}
VowelSet == {"a","e","i","o","u","y"}
EndSet == {".", "!", "?"}

LowerMap == [c \in UpperSet |-> Lowers[CHOOSE i \in 1..26 : Uppers[i] = c]]

\* str.lower() on one character
LowerChar(c) == IF c \in UpperSet THEN LowerMap[c] ELSE c

\* str.lower()
Lower(s) == [i \in 1..Len(s) |-> LowerChar(s[i])]

\* a nullable column: NULL, or a one-element sequence holding the value
NULL == <<>>
Some(v) == <<v>>

Max(a, b) == IF a >= b THEN a ELSE b
Min(a, b) == IF a <= b THEN a ELSE b

\* s[i:j] of Python for 0 <= i <= j <= len(s)
Slice(s, i, j) == SubSeq(s, i + 1, j)

\* str.strip(): drop leading and trailing whitespace
Strip(s) ==
    LET idx == {i \in 1..Len(s) : s[i] \notin SpaceSet}
    IN  IF idx = {} THEN <<>>
        ELSE SubSeq(s, CHOOSE i \in idx : \A j \in idx : i <= j,
                       CHOOSE i \in idx : \A j \in idx : i >= j)

\* s starts with the literal lit at 0-based offset p
LitAt(s, lit, p) ==
    /\ p + Len(lit) <= Len(s)
    /\ \A k \in 1..Len(lit) : s[p + k] = lit[k]

\* str.count(lit): number of non-overlapping occurrences, left to right
RECURSIVE CountFrom(_, _, _)
CountFrom(s, lit, p) ==
    IF p + Len(lit) > Len(s) THEN 0
    ELSE IF LitAt(s, lit, p) THEN 1 + CountFrom(s, lit, p + Len(lit))
    ELSE CountFrom(s, lit, p + 1)

Count(s, lit) == CountFrom(s, lit, 0)

\* stable ascending sort of a sequence of integer keys: the permutation
\* (list.sort / sorted are stable; reverse=True keeps the order of equals)
StablePerm(keys) ==
    LET n == Len(keys)
        rank(i) == Cardinality({j \in 1..n : keys[j] < keys[i]
                                   \/ (keys[j] = keys[i] /\ j < i)}) + 1
    IN  [r \in 1..n |-> CHOOSE i \in 1..n : rank(i) = r]

SortAsc(seq, keys) ==
    LET p == StablePerm(keys) IN [r \in 1..Len(seq) |-> seq[p[r]]]

SortDesc(seq, keys) ==
    SortAsc(seq, [i \in 1..Len(keys) |-> 0 - keys[i]])

RECURSIVE Flatten(_)
Flatten(ss) == IF ss = <<>> THEN <<>> ELSE Head(ss) \o Flatten(Tail(ss))


-----------------------------------------------------------------------------
(* Technical term matcher and tooltip injector (update_protocols.py) *)

\* the character at 1-based index k exists and is a regex word character
WordAt(s, k) == k >= 1 /\ k <= Len(s) /\ s[k] \in WordSet

\* \b holds at 0-based offset p
Boundary(s, p) == WordAt(s, p) # WordAt(s, p + 1)

\* r'\b' + re.escape(clinical_term) + r'\b' with re.IGNORECASE matches at p
TermMatchAt(s, term, p) ==
    /\ p + Len(term) <= Len(s)
    /\ \A k \in 1..Len(term) : LowerChar(s[p + k]) = LowerChar(term[k])
    /\ Boundary(s, p)
    /\ Boundary(s, p + Len(term))

\* re.finditer: start offsets of the non-overlapping matches, left to right
RECURSIVE FindIter(_, _, _)
FindIter(s, term, p) ==
    IF p + Len(term) > Len(s) THEN <<>>
    ELSE IF TermMatchAt(s, term, p)
         THEN <<p>> \o FindIter(s, term, IF Len(term) = 0 THEN p + 1
                                                          ELSE p + Len(term))
         ELSE FindIter(s, term, p + 1)

\* variant: the glossary is scanned in the order given, not longest term first
sorted_glossary_AsGiven(g) == g

\* sorted(glossary, key=len(clinical_term), reverse=True)
sorted_glossary(g) == SortDesc(g, [i \in 1..Len(g) |-> Len(g[i].clinical_term)])

\* the matches appended for one glossary entry
EntryMatches(s, entry) ==
    LET clinical_term == Lower(entry.clinical_term)
        starts == FindIter(s, clinical_term, 0)
    IN  [i \in 1..Len(starts) |->
            [term |-> Slice(s, starts[i], starts[i] + Len(clinical_term)),
             position |-> starts[i],
             end_position |-> starts[i] + Len(clinical_term),
             definition |-> entry.user_friendly_term,
             category |-> entry.category]]

\* the list technical_terms before the overlap removal
technical_terms(s, g) ==
    LET sg == sorted_glossary(g)
    IN  Flatten([i \in 1..Len(sg) |-> EntryMatches(s, sg[i])])

\* variant: only the end of the match is tested against the ranges seen
Overlaps_EndOnly(t, kept) ==
    \E i \in 1..Len(kept) :
        kept[i].position < t.end_position /\ t.end_position <= kept[i].end_position

\* the test of lines 120-123 against the ranges seen so far
Overlaps(t, kept) ==
    \E i \in 1..Len(kept) :
        \/ kept[i].position <= t.position /\ t.position < kept[i].end_position
        \/ kept[i].position < t.end_position
              /\ t.end_position <= kept[i].end_position

\* variant: no match is dropped
RemoveOverlaps_KeepAll(ts, i, kept) == ts

RECURSIVE RemoveOverlaps(_, _, _)
RemoveOverlaps(ts, i, kept) ==
    IF i > Len(ts) THEN kept
    ELSE IF Overlaps(ts[i], kept) THEN RemoveOverlaps(ts, i + 1, kept)
    ELSE RemoveOverlaps(ts, i + 1, Append(kept, ts[i]))

\* technical_terms.sort(key=lambda x: x['position'])
ByPosition(tt) == SortAsc(tt, [i \in 1..Len(tt) |-> tt[i].position])

find_technical_terms(s, g) == RemoveOverlaps(ByPosition(technical_terms(s, g)), 1, <<>>)

\* ten times the exact value of the expression of lines 159-163
ExactScore(t) ==
    4 * (1000 - t.position) + 3 * Len(t.definition)
      + 3 * (IF t.category = "neuroscience" THEN 100 ELSE 50)

\* the rounding error of the double that lines 159-163 compute, in units of
\* 2^-44 / 10: (1000 - position) * 0.4 is rounded to a multiple of 2^-44, and
\* so is the sum with len(definition) * 0.3; the category term is exact. The
\* error depends on the residues modulo 5 (positions below 200, definitions
\* of less than 100 characters)
FloatError(position, length) ==
    <<0, 4, 8, 2, 6>>[(position % 5) + 1] + <<0, 2, 4, -4, -2>>[(length % 5) + 1]

\* the priority score of lines 159-163 as the sort compares it: the exact
\* value first, the rounding error of the double among equal exact values
priority_score(t) ==
    100 * ExactScore(t) + FloatError(t.position, Len(t.definition))

\* variant: the list is not cut
Take_All(seq, n) == seq

\* seq[:n]
Take(seq, n) ==
    IF n >= 0 THEN SubSeq(seq, 1, Min(n, Len(seq)))
    ELSE SubSeq(seq, 1, Max(0, Len(seq) + n))

\* the matches selected for injection, in injection order (position descending)
\* sorted(terms, key=priority_score, reverse=True)
ByPriority(terms) ==
    SortDesc(terms, [i \in 1..Len(terms) |-> priority_score(terms[i])])

\* top_terms.sort(key=lambda x: x['position'], reverse=True)
ByPositionDesc(top) == SortDesc(top, [i \in 1..Len(top) |-> top[i].position])

top_terms(s, g, n) == ByPositionDesc(Take(ByPriority(find_technical_terms(s, g)), n))

\* f"{{{{{term}||{definition}}}}}"
Tooltip(term, definition) == <<"{", "{">> \o term \o <<"|", "|">> \o definition \o <<"}", "}">>

RECURSIVE InjectFrom(_, _, _)
InjectFrom(text, top, i) ==
    IF i > Len(top) THEN text
    ELSE InjectFrom(Slice(text, 0, top[i].position)
                       \o Tooltip(top[i].term, top[i].definition)
                       \o Slice(text, top[i].end_position, Len(text)),
                    top, i + 1)

\* inject_tooltips(...)[0]
inject_text(s, g, n) == InjectFrom(s, top_terms(s, g, n), 1)

\* variant: the dict is keyed by the lower-cased term
TermsUsed_Lowered(top) ==
    [t \in {Lower(top[i].term) : i \in 1..Len(top)} |->
        top[CHOOSE i \in 1..Len(top) : Lower(top[i].term) = t].definition]

\* inject_tooltips(...)[1]: the dict terms_used (later assignments win)
TermsUsed(top) ==
    [t \in {top[i].term : i \in 1..Len(top)} |->
        top[CHOOSE i \in 1..Len(top) :
                /\ top[i].term = t
                /\ \A j \in 1..Len(top) : top[j].term = t => j <= i].definition]

\* a variant that reports every glossary term, matched or not
inject_terms_Glossary(s, g, n) ==
    [t \in {g[i].clinical_term : i \in 1..Len(g)} |->
        g[CHOOSE i \in 1..Len(g) : g[i].clinical_term = t].user_friendly_term]

inject_terms(s, g, n) == TermsUsed(top_terms(s, g, n))

-----------------------------------------------------------------------------
(* Markup validator (update_protocols.py) *)

\* 0-based offset of the first character c at offset >= from, or -1
FirstAt(s, c, from) ==
    LET idx == {o \in Max(from, 0)..(Len(s) - 1) : s[o + 1] = c}
    IN  IF idx = {} THEN 0 - 1 ELSE CHOOSE o \in idx : \A q \in idx : o <= q

\* match of \{\{([^|]+)\|[^}]+\}\} (bars = 1) or of
\* \{\{([^|]+)\|\|([^}]+)\}\} (bars = 2) starting at offset p:
\* group 1 is [p+2, bar), the last group ends at close, the match at close+2
MarkupMatch(s, p, bars) ==
    LET k == FirstAt(s, "|", p + 2)
        d == k + bars
        m == IF k < 0 THEN 0 - 1 ELSE FirstAt(s, "}", d)
    IN  [ok |-> /\ LitAt(s, <<"{", "{">>, p)
                /\ k >= p + 3
                /\ (bars = 2 => LitAt(s, <<"|", "|">>, k))
                /\ m >= d + 1
                /\ LitAt(s, <<"}", "}">>, m),
         bar |-> k, def |-> d, close |-> m]

\* re.sub(r'\{\{([^|]+)\|[^}]+\}\}', r'\1', simplified)
RECURSIVE StripFrom(_, _)
StripFrom(s, p) ==
    IF p >= Len(s) THEN <<>>
    ELSE LET m == MarkupMatch(s, p, 1)
         IN  IF s[p + 1] = "{" /\ m.ok THEN Slice(s, p + 2, m.bar) \o StripFrom(s, m.close + 2)
             ELSE <<s[p + 1]>> \o StripFrom(s, p + 1)

stripped(simplified) == StripFrom(simplified, 0)

\* re.search(r'\{\{[^}]*\{\{', simplified)
nested(s) ==
    \E i \in 0..(Len(s) - 4) :
        /\ LitAt(s, <<"{", "{">>, i)
        /\ LET close == FirstAt(s, "}", i + 2)
               stop == IF close < 0 THEN Len(s) ELSE close
           IN  \E j \in (i + 2)..(stop - 2) : LitAt(s, <<"{", "{">>, j)

Markers == << <<"*", "*">>, <<"*">>, <<"_", "_">>, <<"_">> >>

\* the first marker of the list with an odd count, 0 if none
OddMarker(s) ==
    LET odd == {i \in 1..Len(Markers) : Count(s, Markers[i]) % 2 # 0}
    IN  IF odd = {} THEN 0 ELSE CHOOSE i \in odd : \A j \in odd : i <= j

\* lines 214-216: stripped != original and stripped.strip() != original.strip()
Altered(original, plain) == plain # original /\ Strip(plain) # Strip(original)

\* the result (bool, message); args holds the values the f-string of the
\* message interpolates (lines 215 and 228)
Verdict(ok, msg, args) == [ok |-> ok, msg |-> msg, args |-> args]

validate_tooltip_injection_MarkersFirst(original, simplified) ==
    IF OddMarker(simplified) # 0
    THEN Verdict(FALSE, "Unbalanced markdown marker", <<Markers[OddMarker(simplified)]>>)
    ELSE IF nested(simplified)
    THEN Verdict(FALSE, "Nested tooltips detected", <<>>)
    ELSE IF Count(simplified, <<"{", "{">>) # Count(simplified, <<"}", "}">>)
    THEN Verdict(FALSE, "Unbalanced tooltips",
                 <<Count(simplified, <<"{", "{">>), Count(simplified, <<"}", "}">>)>>)
    ELSE IF Altered(original, stripped(simplified))
    THEN Verdict(FALSE, "Original content altered", <<>>)
    ELSE Verdict(TRUE, "Valid", <<>>)

validate_tooltip_injection(original, simplified) ==
    IF nested(simplified)
    THEN Verdict(FALSE, "Nested tooltips detected", <<>>)
    ELSE IF Count(simplified, <<"{", "{">>) # Count(simplified, <<"}", "}">>)
    THEN Verdict(FALSE, "Unbalanced tooltips",
                 <<Count(simplified, <<"{", "{">>), Count(simplified, <<"}", "}">>)>>)
    ELSE IF Altered(original, stripped(simplified))
    THEN Verdict(FALSE, "Original content altered", <<>>)
    ELSE IF OddMarker(simplified) # 0
    THEN Verdict(FALSE, "Unbalanced markdown marker", <<Markers[OddMarker(simplified)]>>)
    ELSE Verdict(TRUE, "Valid", <<>>)

-----------------------------------------------------------------------------
(* Text complexity analyzer (validation-framework.py) *)

\* s without the character c
RECURSIVE RemoveChar(_, _)
RemoveChar(s, c) ==
    IF s = <<>> THEN <<>>
    ELSE IF Head(s) = c THEN RemoveChar(Tail(s), c)
    ELSE <<Head(s)>> \o RemoveChar(Tail(s), c)

\* length of the run of character c starting at offset p
RECURSIVE RunLen(_, _, _)
RunLen(s, c, p) ==
    IF p < Len(s) /\ s[p + 1] = c THEN 1 + RunLen(s, c, p + 1) ELSE 0

\* re.sub(r'#{1,6}\s', '', text)
RECURSIVE RemoveHeaders(_, _)
RemoveHeaders(s, p) ==
    IF p >= Len(s) THEN <<>>
    ELSE LET r == RunLen(s, "#", p)
         IN  IF r >= 1 /\ r <= 6 /\ p + r < Len(s) /\ s[p + r + 1] \in SpaceSet
             THEN RemoveHeaders(s, p + r + 1)
             ELSE <<s[p + 1]>> \o RemoveHeaders(s, p + 1)

\* re.sub(r'\[([^\]]+)\]\([^)]+\)', r'\1', text)
RECURSIVE RemoveLinks(_, _)
RemoveLinks(s, p) ==
    IF p >= Len(s) THEN <<>>
    ELSE LET k == FirstAt(s, "]", p + 1)
             m == IF k < 0 THEN 0 - 1 ELSE FirstAt(s, ")", k + 2)
         IN  IF /\ s[p + 1] = "["
                /\ k >= p + 2
                /\ LitAt(s, <<"(">>, k + 1)
                /\ m >= k + 3
             THEN Slice(s, p + 1, k) \o RemoveLinks(s, m + 1)
             ELSE <<s[p + 1]>> \o RemoveLinks(s, p + 1)

clean_text(text) ==
    IF \A i \in 1..Len(text) : text[i] \notin {"*", "#", "["} THEN text
    ELSE RemoveLinks(RemoveHeaders(RemoveChar(text, "*"), 0), 0)

\* length of the run of letters starting at offset p
RECURSIVE AlphaRun(_, _)
AlphaRun(s, p) ==
    IF p < Len(s) /\ s[p + 1] \in AlphaSet THEN 1 + AlphaRun(s, p + 1) ELSE 0

\* re.findall(r'\b[a-zA-Z]+\b', text)
RECURSIVE WordsFrom(_, _)
WordsFrom(s, p) ==
    IF p >= Len(s) THEN <<>>
    ELSE LET r == AlphaRun(s, p)
         IN  IF r >= 1 /\ Boundary(s, p) /\ Boundary(s, p + r)
             THEN <<Slice(s, p, p + r)>> \o WordsFrom(s, p + r)
             ELSE WordsFrom(s, p + 1)

\* a variant that leaves out the words of one letter
words_Long(text) == SelectSeq(WordsFrom(text, 0), LAMBDA w : Len(w) > 1)

words(text) == WordsFrom(text, 0)

\* number of maximal runs of vowels in w from index i on
RECURSIVE VowelGroups(_, _, _)
VowelGroups(w, i, inGroup) ==
    IF i > Len(w) THEN 0
    ELSE IF w[i] \in VowelSet
         THEN (IF inGroup THEN 0 ELSE 1) + VowelGroups(w, i + 1, TRUE)
         ELSE VowelGroups(w, i + 1, FALSE)

\* a variant that counts a final 'e' like any other vowel group
Syllables_Unadjusted(word, groups) == IF word = <<>> THEN 0 ELSE Max(1, groups)

\* the count for the cleaned word and its number of vowel groups
Syllables(word, groups) ==
    IF word = <<>> THEN 0
    ELSE Max(1, IF word[Len(word)] = "e" /\ groups > 1 THEN groups - 1 ELSE groups)

\* re.sub(r'[^a-z]', '', word)
OnlyLower(lw) == SelectSeq(lw, LAMBDA c : c \in LowerSet)

CleanSyllables(word) == Syllables(word, VowelGroups(word, 1, FALSE))

count_syllables(word0) == CleanSyllables(OnlyLower(Lower(Strip(word0))))

Abbreviations == << <<"d", "r">>, <<"m", "r">>, <<"m", "r", "s">>, <<"m", "s">>,
                    <<"e", "t", "c">>, <<"i", ".", "e">>, <<"e", ".", "g">> >>

PERIOD == <<"<", "P", "E", "R", "I", "O", "D", ">">>

\* the alternative of (Dr|Mr|Mrs|Ms|etc|i\.e|e\.g)\. taken at offset p, 0 if none
AbbrevAt(s, p) ==
    LET ok == {a \in 1..Len(Abbreviations) :
                 /\ p + Len(Abbreviations[a]) + 1 <= Len(s)
                 /\ \A k \in 1..Len(Abbreviations[a]) :
                       LowerChar(s[p + k]) = Abbreviations[a][k]
                 /\ s[p + Len(Abbreviations[a]) + 1] = "."}
    IN  IF ~Boundary(s, p) \/ ok = {} THEN 0
        ELSE CHOOSE a \in ok : \A b \in ok : a <= b

\* re.sub(r'\b(Dr|Mr|Mrs|Ms|etc|i\.e|e\.g)\.', r'\1<PERIOD>', text, IGNORECASE)
RECURSIVE ProtectFrom(_, _)
ProtectFrom(s, p) ==
    IF p >= Len(s) THEN <<>>
    ELSE LET a == IF LowerChar(s[p + 1]) \in {"d", "m", "e", "i"}
                  THEN AbbrevAt(s, p) ELSE 0
         IN  IF a # 0
             THEN Slice(s, p, p + Len(Abbreviations[a])) \o PERIOD
                    \o ProtectFrom(s, p + Len(Abbreviations[a]) + 1)
             ELSE <<s[p + 1]>> \o ProtectFrom(s, p + 1)

\* number of pieces of re.split(r'[.!?]+', s) that are not blank
RECURSIVE Pieces(_, _, _)
Pieces(s, i, open) ==
    IF i > Len(s) THEN 0
    ELSE IF s[i] \in EndSet THEN Pieces(s, i + 1, FALSE)
    ELSE IF s[i] \in SpaceSet \/ open THEN Pieces(s, i + 1, open)
    ELSE 1 + Pieces(s, i + 1, TRUE)

count_sentences(text) ==
    Max(1, Pieces(IF \A i \in 1..Len(text) : text[i] # "." THEN text
                  ELSE ProtectFrom(text, 0), 1, FALSE))

RECURSIVE SumSyllables(_)
SumSyllables(ws) ==
    IF ws = <<>> THEN 0 ELSE count_syllables(Head(ws)) + SumSyllables(Tail(ws))

\* (word_count, sentence_count, syllable_count)
Complexity(ws, sentence_count) == <<Len(ws), sentence_count, SumSyllables(ws)>>

CleanComplexity(ct) == Complexity(words(ct), count_sentences(ct))

analyze_text_complexity(text) == CleanComplexity(clean_text(text))

\* floor(a / b) for b > 0
FloorDiv(a, b) == IF a >= 0 THEN a \div b ELSE 0 - ((0 - a + b - 1) \div b)

\* 100 * round(0.39 * w/s + 11.8 * y/w - 15.59, 2); a value that lies exactly
\* between two hundredths is rounded up
calculate_flesch_kincaid_grade(word_count, sentence_count, syllable_count) ==
    IF word_count = 0 \/ sentence_count = 0 THEN 0
    ELSE LET num == 39 * word_count * word_count
                      + 1180 * syllable_count * sentence_count
                      - 1559 * sentence_count * word_count
             den == sentence_count * word_count
         IN  FloorDiv(2 * num + den, 2 * den)

\* the grade level of a text, as every script computes it
GradeOf(c) == calculate_flesch_kincaid_grade(c[1], c[2], c[3])

Grade(text) == GradeOf(analyze_text_complexity(text))

-----------------------------------------------------------------------------
(* Degradation diagnosis (identify-degraded-protocols.py) *)

\* the tooltips of re.findall(r'\{\{([^|]+)\|\|([^}]+)\}\}', text), as scored
\* by extract_tooltips_from_text
RECURSIVE TooltipsFrom(_, _), TooltipsAfter(_, _, _)
TooltipsFrom(s, p) ==
    IF p >= Len(s) THEN <<>>
    ELSE IF s[p + 1] = "{" /\ MarkupMatch(s, p, 2).ok
    THEN TooltipsAfter(s, p, MarkupMatch(s, p, 2))
    ELSE TooltipsFrom(s, p + 1)

\* lines 66-77 for one (term, definition) of the findall
ScoredTooltip(term, definition, c) ==
    [term |-> Strip(term),
     definition |-> Strip(definition),
     length |-> Len(definition),
     word_count |-> c[1],
     reading_level |-> GradeOf(c)]

TooltipOf(term, definition) ==
    ScoredTooltip(term, definition, analyze_text_complexity(definition))

TooltipsAfter(s, p, m) ==
    <<TooltipOf(Slice(s, p + 2, m.bar), Slice(s, m.def, m.close))>>
      \o TooltipsFrom(s, m.close + 2)

extract_tooltips_from_text(text) == TooltipsFrom(text, 0)

\* re.split(r'[.!?]+', text): the pieces between runs of sentence enders
RECURSIVE SplitSentences(_, _, _)
SplitSentences(s, p, cur) ==
    IF p >= Len(s) THEN <<cur>>
    ELSE IF s[p + 1] \in EndSet
    THEN IF p > 0 /\ s[p] \in EndSet THEN SplitSentences(s, p + 1, cur)
         ELSE <<cur>> \o SplitSentences(s, p + 1, <<>>)
    ELSE SplitSentences(s, p + 1, Append(cur, s[p + 1]))

\* len(re.findall(r'\{\{[^}]+\}\}', sentence)) from offset p on
RECURSIVE TooltipCountFrom(_, _)
TooltipCountFrom(s, p) ==
    IF p >= Len(s) THEN 0
    ELSE LET m == FirstAt(s, "}", p + 2)
         IN  IF /\ s[p + 1] = "{"
                /\ LitAt(s, <<"{", "{">>, p)
                /\ m >= p + 3
                /\ LitAt(s, <<"}", "}">>, m)
             THEN 1 + TooltipCountFrom(s, m + 2)
             ELSE TooltipCountFrom(s, p + 1)

RECURSIVE MaxOf(_)
MaxOf(ns) == IF ns = <<>> THEN 0 ELSE Max(Head(ns), MaxOf(Tail(ns)))

\* analyze_sentence_tooltip_density(text)['max_tooltips_per_sentence']
MaxTooltipCount(sentences) ==
    MaxOf([i \in 1..Len(sentences) |->
             IF Strip(sentences[i]) = <<>> THEN 0
             ELSE TooltipCountFrom(sentences[i], 0)])

max_tooltips_per_sentence(text) == MaxTooltipCount(SplitSentences(text, 0, <<>>))

LongTooltipWords == 15
ComplexTooltipGrade == 800
DenseSentenceTooltips == 3

\* the list repair_strategies of diagnose_degradation
\* lines 148-150
OrManualReview(found) == IF found = <<>> THEN <<"manual_review">> ELSE found

\* lines 126-146 over the extracted tooltips and the densest sentence
Strategies(tooltips, max_per_sentence) ==
    OrManualReview(
        (IF \E i \in 1..Len(tooltips) : tooltips[i].word_count > LongTooltipWords
         THEN <<"shorten_definitions">> ELSE <<>>)
        \o (IF \E i \in 1..Len(tooltips) :
                   tooltips[i].reading_level > ComplexTooltipGrade
            THEN <<"simplify_language">> ELSE <<>>)
        \o (IF max_per_sentence >= DenseSentenceTooltips
            THEN <<"remove_tooltips">> ELSE <<>>))

\* the list repair_strategies of diagnose_degradation
repair_strategies(simplified_text) ==
    Strategies(extract_tooltips_from_text(simplified_text),
               max_tooltips_per_sentence(simplified_text))

\* protocol.get(field, 0) on a record of the store
GetOrZero(v) == IF v = NULL THEN 0 ELSE v[1]

\* protocol.get('simplified_text', '') and protocol.get('chunk_text', '')
GetText(v) == IF v = NULL THEN <<>> ELSE v[1]

\* the fields of the diagnosis the repair scripts read
diagnose_degradation(id, protocol) ==
    [protocol_id |-> id,
     reading_level_before |-> GetOrZero(protocol.reading_level_before),
     reading_level_after |-> GetOrZero(protocol.reading_level_after),
     degradation |-> GetOrZero(protocol.reading_level_after)
                       - GetOrZero(protocol.reading_level_before),
     repair_strategies |-> repair_strategies(GetText(protocol.simplified_text))]

-----------------------------------------------------------------------------
(* Repair strategies (repair-degraded-protocols.py, -v2.py) *)

\* str.split(): the maximal runs of non-whitespace characters
RECURSIVE SplitFrom(_, _)
SplitFrom(s, p) ==
    IF p >= Len(s) THEN <<>>
    ELSE IF s[p + 1] \in SpaceSet THEN SplitFrom(s, p + 1)
    ELSE LET stop == {q \in (p + 1)..Len(s) : q = Len(s) \/ s[q + 1] \in SpaceSet}
             e == CHOOSE q \in stop : \A r \in stop : q <= r
         IN  <<Slice(s, p, e)>> \o SplitFrom(s, e)

\* ' '.join(ws)
RECURSIVE Join(_)
Join(ws) ==
    IF ws = <<>> THEN <<>>
    ELSE IF Len(ws) = 1 THEN ws[1]
    ELSE ws[1] \o <<" ">> \o Join(Tail(ws))

MaxDefinitionWords == 12

simplify_tooltip_definition(definition) ==
    LET ends == {i \in 1..Len(definition) : definition[i] \in EndSet}
        first == IF ends = {} THEN definition
                 ELSE SubSeq(definition, 1, (CHOOSE i \in ends : \A j \in ends : i <= j) - 1)
        first_sentence == Strip(first)
        ws == SplitFrom(first_sentence, 0)
    IN  IF Len(ws) > MaxDefinitionWords
        THEN Join(SubSeq(ws, 1, MaxDefinitionWords)) \o <<".", ".", ".">>
        ELSE first_sentence

\* re.sub(tooltip_pattern, replace_tooltip, text) with simplify=True
RECURSIVE SimplifyFrom(_, _)
SimplifyFrom(s, p) ==
    IF p >= Len(s) THEN <<>>
    ELSE LET m == MarkupMatch(s, p, 2)
         IN  IF s[p + 1] = "{" /\ m.ok
             THEN Tooltip(Strip(Slice(s, p + 2, m.bar)),
                          simplify_tooltip_definition(Strip(Slice(s, m.def, m.close))))
                  \o SimplifyFrom(s, m.close + 2)
             ELSE <<s[p + 1]>> \o SimplifyFrom(s, p + 1)

extract_and_simplify_tooltips(text) == SimplifyFrom(text, 0)

RemoveThreshold == 800

\* re.sub(tooltip_pattern, should_remove_tooltip, text)
RECURSIVE RemoveFrom(_, _)
RemoveFrom(s, p) ==
    IF p >= Len(s) THEN <<>>
    ELSE LET m == MarkupMatch(s, p, 2)
         IN  IF s[p + 1] = "{" /\ m.ok
             THEN (IF Grade(Strip(Slice(s, m.def, m.close))) > RemoveThreshold
                   THEN Strip(Slice(s, p + 2, m.bar))
                   ELSE Slice(s, p, m.close + 2))
                  \o RemoveFrom(s, m.close + 2)
             ELSE <<s[p + 1]>> \o RemoveFrom(s, p + 1)

\* variant: every tooltip is removed, whatever the grade of its definition
remove_complex_tooltips_Every(text) == stripped(text)

\* remove_complex_tooltips(text)[0]
remove_complex_tooltips(text) == RemoveFrom(text, 0)

Contains(seq, x) == \E i \in 1..Len(seq) : seq[i] = x

\* the strategy chosen by the if / elif chain of lines 144-158
strategy_applied(strategies) ==
    IF Contains(strategies, "simplify_language") THEN "simplify_language"
    ELSE IF Contains(strategies, "remove_tooltips") THEN "remove_tooltips"
    ELSE IF Contains(strategies, "manual_review") THEN "manual_review"
    ELSE "None"

MinImprovement == 10

should_update_Always(improvement, reading_level_repaired, reading_level_after) ==
    TRUE

\* the binary exponent of the double nearest to grade / 100
\* (2^e <= |grade| / 100 < 2^(e+1)), for a grade that is not 0
Binade(grade) ==
    CHOOSE e \in -7..7 :
        /\ 100 * 2^(e + 7) <= 128 * Max(grade, 0 - grade)
        /\ 128 * Max(grade, 0 - grade) < 100 * 2^(e + 8)

RECURSIVE Pow2Mod(_)
Pow2Mod(k) == IF k = 0 THEN 1 ELSE (2 * Pow2Mod(k - 1)) % 100

\* the grades are Python floats: the double nearest to grade / 100 minus
\* grade / 100, in units of 2^-60 / 100.  The residue of |grade| * 2^(52-e)
\* modulo 100 is what rounding to 53 bits drops (below 50) or adds (above 50;
\* it is never 50, the product being a multiple of 4)
GradeError(grade) ==
    IF grade = 0 THEN 0
    ELSE LET e == Binade(grade)
             r == (Max(grade, 0 - grade) * Pow2Mod(52 - e)) % 100
         IN  (IF grade > 0 THEN 1 ELSE 0 - 1)
               * (IF r < 50 THEN 0 - r ELSE 100 - r) * 2^(e + 8)

\* improvement > 0.1 of line 180, improvement being the float difference of
\* the two grades: a difference of 0.11 or more is above the double 0.1
\* (0.1 + 640 units), one of 0.09 or less is not, and one of exactly 0.10 is
\* above it when the rounded difference of the two doubles is, that is when
\* the two errors differ by more than 640 + 800 units (half a unit in the
\* last place of 0.1 is 800 units and a tie goes to the double 0.1)
ImprovementAbove(improvement, reading_level_repaired, reading_level_after) ==
    \/ improvement > MinImprovement
    \/ /\ improvement = MinImprovement
       /\ GradeError(reading_level_after) - GradeError(reading_level_repaired) > 1440

\* line 180
should_update(improvement, reading_level_repaired, reading_level_after) ==
    /\ ImprovementAbove(improvement, reading_level_repaired, reading_level_after)
    /\ reading_level_repaired < reading_level_after

\* lines 144-158: the text after the chosen strategy
Repaired(strategy, simplified_text) ==
    IF strategy = "simplify_language"
    THEN extract_and_simplify_tooltips(simplified_text)
    ELSE IF strategy = "remove_tooltips"
    THEN remove_complex_tooltips(simplified_text)
    ELSE simplified_text

\* lines 164-182: the returned dict
RepairResult(diagnosis, strategy, repaired_text, reading_level_repaired) ==
    [protocol_id |-> diagnosis.protocol_id,
     reading_level_before |-> diagnosis.reading_level_before,
     reading_level_after |-> diagnosis.reading_level_after,
     reading_level_repaired |-> reading_level_repaired,
     repair_improvement |-> diagnosis.reading_level_after - reading_level_repaired,
     net_change |-> reading_level_repaired - diagnosis.reading_level_before,
     strategy_applied |-> strategy,
     should_update |-> should_update(
                           diagnosis.reading_level_after - reading_level_repaired,
                           reading_level_repaired, diagnosis.reading_level_after),
     repaired_text |-> repaired_text]

\* lines 160-162: the repaired text is rescored
RepairScored(diagnosis, strategy, repaired_text) ==
    RepairResult(diagnosis, strategy, repaired_text, Grade(repaired_text))

repair_protocol(protocol, diagnosis) ==
    RepairScored(diagnosis, strategy_applied(diagnosis.repair_strategies),
                 Repaired(strategy_applied(diagnosis.repair_strategies),
                          GetText(protocol.simplified_text)))

\* lines 69-81 of the v2 script: the returned dict
RevertResult(diagnosis, repaired_text, reading_level_repaired) ==
    [protocol_id |-> diagnosis.protocol_id,
     reading_level_before |-> diagnosis.reading_level_before,
     reading_level_after |-> diagnosis.reading_level_after,
     reading_level_repaired |-> reading_level_repaired,
     repair_improvement |-> diagnosis.reading_level_after - reading_level_repaired,
     net_change |-> reading_level_repaired - diagnosis.reading_level_before,
     strategy_applied |-> "revert_to_original",
     should_update |-> TRUE,
     repaired_text |-> repaired_text]

repair_protocol_revert(protocol, diagnosis) ==
    RevertResult(diagnosis, protocol.chunk_text, Grade(protocol.chunk_text))

-----------------------------------------------------------------------------
(* Markdown fix (fix-markdown-errors.py) *)

\* count_markdown_markers: 'asterisks_balanced' and 'underscores_balanced'
asterisks_balanced(text) == Count(text, <<"*">>) % 2 = 0
underscores_balanced(text) == Count(text, <<"_">>) % 2 = 0

\* len(re.findall(r'(?<!\*)\*(?!\*)', text))
LoneAsterisks(s) ==
    Cardinality({i \in 1..Len(s) :
                    /\ s[i] = "*"
                    /\ (i > 1 => s[i - 1] # "*")
                    /\ (i < Len(s) => s[i + 1] # "*")})

\* len(find_unbalanced_markers(text)) > 0
has_issues(text) ==
    \/ Count(text, <<"*", "*">>) % 2 # 0
    \/ LoneAsterisks(text) % 2 # 0
    \/ Count(text, <<"_">>) % 2 # 0

\* length of the run of digits starting at offset p
RECURSIVE DigitRun(_, _)
DigitRun(s, p) ==
    IF p < Len(s) /\ s[p + 1] \in DigitSet THEN 1 + DigitRun(s, p + 1) ELSE 0

\* re.sub(r'(\d+)\s\*\s(\d+)', r'\1 \\* \2', text)
RECURSIVE EscapeMath(_, _)
EscapeMath(s, p) ==
    IF p >= Len(s) THEN <<>>
    ELSE LET d1 == DigitRun(s, p)
             q == p + d1
             d2 == DigitRun(s, q + 3)
         IN  IF /\ d1 >= 1
                /\ q + 3 < Len(s)
                /\ s[q + 1] \in SpaceSet /\ s[q + 2] = "*" /\ s[q + 3] \in SpaceSet
                /\ d2 >= 1
             THEN Slice(s, p, q) \o <<" ", "\\", "*", " ">> \o Slice(s, q + 3, q + 3 + d2)
                  \o EscapeMath(s, q + 3 + d2)
             ELSE <<s[p + 1]>> \o EscapeMath(s, p + 1)

\* fix_markdown_markers(text)[0]; both counts are taken before a marker is added
fix_markdown_markers(text) ==
    LET escaped == EscapeMath(text, 0)
    IN  escaped
          \o (IF asterisks_balanced(escaped) THEN <<>> ELSE <<"*">>)
          \o (IF underscores_balanced(escaped) THEN <<>> ELSE <<"_">>)

\* 'is_fixed' of fix_protocol
is_fixed(fixed_text) == asterisks_balanced(fixed_text) /\ underscores_balanced(fixed_text)

-----------------------------------------------------------------------------
(* Inputs of the dry run: one text, one glossary, one max_tooltips *)

MaxTextLen == 6
MaxGlossary == 2
MaxTooltipsArg == 1

TextAlphabet == {"a", "B", " "}

RECURSIVE SeqsUpTo(_, _)
SeqsUpTo(S, n) ==
    IF n = 0 THEN {<<>>}
    ELSE LET shorter == SeqsUpTo(S, n - 1)
         IN  shorter \cup {Append(q, x) : q \in {r \in shorter : Len(r) = n - 1}, x \in S}

Texts == SeqsUpTo(TextAlphabet, MaxTextLen)

Entry(t, d, c) == [clinical_term |-> t, user_friendly_term |-> d, category |-> c]

EntryUniverse ==
    { Entry(<<"b">>, <<"x">>, "neuroscience"),
      Entry(<<"a", " ", "b">>, <<"y", "}">>, "general"),
      Entry(<<"B", " ", "a", "b">>, <<"x", " ", "y">>, "general") }

\* glossaries: lists of distinct entries (the term is a unique key)
Glossaries ==
    {g \in SeqsUpTo(EntryUniverse, MaxGlossary) :
        \A i, j \in 1..Len(g) : i # j => g[i] # g[j]}

Idle == [pc |-> "idle"]

\* the dry run touches neither the store nor the files of the other scripts
InitStoreVars ==
    /\ store = <<>>
    /\ analysis = NULL
    /\ production = Idle
    /\ repair = Idle
    /\ revert = Idle
    /\ markdown_fix = Idle
    /\ updated_protocols = <<>>
    /\ update_results = <<>>
    /\ batch = Idle
    /\ injected_level = <<>>

InitDryRun ==
    /\ glossary \in Glossaries
    /\ protocol_text \in Texts
    /\ max_tooltips \in 0..MaxTooltipsArg
    /\ pc = "start"
    /\ unique_terms = <<>>
    /\ updated_text = <<>>
    /\ terms_used = <<>>
    /\ validation = Verdict(TRUE, "", <<>>)
    /\ complexity = NULL
    /\ insertion = Idle
    /\ InitStoreVars

\* task_1_dry_run, lines 112-122, for one protocol: find the terms, inject
\* the tooltips, validate the injection; nothing is written to the store
DryRun ==
    /\ pc = "start"
    /\ unique_terms' = find_technical_terms(protocol_text, glossary)
    /\ updated_text' = inject_text(protocol_text, glossary, max_tooltips)
    /\ terms_used' = inject_terms(protocol_text, glossary, max_tooltips)
    /\ validation' = validate_tooltip_injection(
                        protocol_text,
                        inject_text(protocol_text, glossary, max_tooltips))
    /\ pc' = "done"
    /\ UNCHANGED <<glossary, protocol_text, max_tooltips, complexity, insertion,
                   storeVars>>

NextDryRun == DryRun

SpecDryRun == InitDryRun /\ [][NextDryRun]_vars

\* texts that hold markdown markers: a short text between two runs of markers
MarkerPieces ==
    { <<>>, <<"*">>, <<"_", " ">>, <<" ", "_">>, <<"*", "*">>, <<" ", "_", "_">> }

MarkerTexts ==
    {pre \o t \o post : t \in SeqsUpTo(TextAlphabet, 3), pre \in MarkerPieces, post \in MarkerPieces}

\* the dry run on a text with markers
InitMarkers ==
    /\ glossary \in Glossaries
    /\ protocol_text \in MarkerTexts
    /\ max_tooltips \in 0..MaxTooltipsArg
    /\ pc = "start"
    /\ unique_terms = <<>>
    /\ updated_text = <<>>
    /\ terms_used = <<>>
    /\ validation = Verdict(TRUE, "", <<>>)
    /\ complexity = NULL
    /\ insertion = Idle
    /\ InitStoreVars

SpecMarkers == InitMarkers /\ [][NextDryRun]_vars

-----------------------------------------------------------------------------
(* Inputs of the validator alone: one original and one annotated text *)

\* inject_tooltips(..., max_tooltips=5)
DefaultMaxTooltips == 5

MaxPieces == 4

ValidatorPieces ==
    { <<"{", "{">>, <<"}", "}">>, <<"a">>, <<"|", "|", "x">>,
      <<"*">>, <<"_">>, <<" ">> }

ValidatorOriginals ==
    { <<>>, <<"a">>, <<"a", "a">>, <<" ", "a">>, <<"a", "*">>, <<"_", "a">> }

\* "The vagus nerve helps."
VagusOriginal ==
    <<"T","h","e"," ","v","a","g","u","s"," ","n","e","r","v","e"," ",
      "h","e","l","p","s",".">>

\* "The {{vagus nerve||a calming nerve}} helps."
VagusAnnotated ==
    <<"T","h","e"," ","{","{","v","a","g","u","s"," ","n","e","r","v","e",
      "|","|","a"," ","c","a","l","m","i","n","g"," ","n","e","r","v","e",
      "}","}"," ","h","e","l","p","s",".">>

\* "The {{vagus {{nerve||x}}||y}} helps."
VagusNested ==
    <<"T","h","e"," ","{","{","v","a","g","u","s"," ","{","{","n","e","r",
      "v","e","|","|","x","}","}","|","|","y","}","}"," ","h","e","l","p",
      "s",".">>

ValidatorInputs ==
    {<<o, Flatten(ps)>> : o \in ValidatorOriginals,
                          ps \in SeqsUpTo(ValidatorPieces, MaxPieces)}
      \cup {<<VagusOriginal, VagusAnnotated>>, <<VagusOriginal, VagusNested>>}

InitValidate ==
    /\ \E pair \in ValidatorInputs : protocol_text = pair[1] /\ updated_text = pair[2]
    /\ glossary = <<>>
    /\ max_tooltips = DefaultMaxTooltips
    /\ pc = "injected"
    /\ unique_terms = <<>>
    /\ terms_used = <<>>
    /\ validation = Verdict(TRUE, "", <<>>)
    /\ complexity = NULL
    /\ insertion = Idle
    /\ InitStoreVars

\* update_protocol, line 258: the call of validate_tooltip_injection
Validate ==
    /\ pc = "injected"
    /\ validation' = validate_tooltip_injection(protocol_text, updated_text)
    /\ pc' = "validated"
    /\ UNCHANGED <<glossary, protocol_text, max_tooltips, unique_terms,
                   updated_text, terms_used, complexity, insertion,
                   storeVars>>

NextValidate == Validate

SpecValidate == InitValidate /\ [][NextValidate]_vars

-----------------------------------------------------------------------------
(* The store and the scripts that read and write it *)

DocIds == {"d1", "d2"}

\* the order in which select('*') returns the rows
DocOrder == <<"d1", "d2">>

\* the ids listed in fix-markdown-errors.py
PROTOCOLS_WITH_ERRORS == <<"d1">>

StoreGlossary ==
    << Entry(<<"a">>, <<"a", "b", "a", ".", " ", "a", "b", "a">>, "general"),
       Entry(<<"b">>, <<"a", "b", "a", "b", "a", ".", " ", "a", "_">>, "general"),
       Entry(<<"c">>, <<"a", ".", " ", "a">>, "neuroscience"),
       Entry(<<"d">>, <<"a", " ", "a", " ", "a", " ", "a", " ", "a", " ", "a", " ",
                        "a", " ", "a", " ", "a", " ", "a", " ", "a", " ", "a", " ",
                        "a", " ", "a", " ", "a", " ", "a">>, "general"),
       Entry(<<"1">>, <<"a", "b", "a">>, "general") >>

DocTexts ==
    { <<"a">>,
      <<"a", " ", "a", " ", "a", " ", "a">>,
      <<"b">>,
      <<"c", " ", "_", " ", "b">>,
      <<"c">>,
      <<"c", " ", "c", " ", "c">>,
      <<"a", "b">>,
      <<"d">>,
      <<"1">> }

\* the texts of the second document
SecondTexts == { <<"a", " ", "a", " ", "a", " ", "a">>, <<"c">> }

\* a row as inserted, with the defaults of the migration
NewRecord(text) ==
    [chunk_text |-> text,
     simplified_text |-> NULL,
     glossary_terms |-> NULL,
     reading_level_before |-> NULL,
     reading_level_after |-> NULL,
     language_variant |-> "clinical"]

Init ==
    /\ glossary = StoreGlossary
    /\ protocol_text = <<>>
    /\ max_tooltips = DefaultMaxTooltips
    /\ pc = "idle"
    /\ unique_terms = <<>>
    /\ updated_text = <<>>
    /\ terms_used = <<>>
    /\ validation = Verdict(TRUE, "", <<>>)
    /\ complexity = NULL
    /\ insertion = Idle
    /\ store \in {f \in [DocIds -> {NewRecord(t) : t \in DocTexts}] :
                     f["d2"].chunk_text \in SecondTexts}
    /\ analysis = NULL
    /\ production = Idle
    /\ repair = Idle
    /\ revert = Idle
    /\ markdown_fix = Idle
    /\ updated_protocols = <<>>
    /\ update_results = <<>>
    /\ batch = Idle
    /\ injected_level = [d \in DocIds |-> NULL]

\* the scripts are started by hand, one after the other
Running == {r \in {"production", "repair", "revert", "markdown_fix"} :
               [production |-> production, repair |-> repair, revert |-> revert,
                markdown_fix |-> markdown_fix][r].pc = "running"}

CanStart == Running = {}

\* no script reads the report of another: the report of a finished run is
\* kept until the next script is started
Forgotten(run) == IF run.pc = "done" THEN Idle ELSE run

\* a run after a step: once its list is exhausted the script writes its report
\* (the lists of results the run holds) and exits
AfterStep(run, n) == IF run.i > n THEN [run EXCEPT !.pc = "done"] ELSE run

(* Input errors *)

\* a chunk_text that is null: None in Python, and not a text
None == <<"None">>

\* an entry that holds a term: entry['clinical_term'] (update_protocols.py,
\* line 95) and entry['term'] (execute-week-4-agent-2.py, line 75) raise
\* KeyError on any other
WellFormed(entry) == "clinical_term" \in DOMAIN entry

Malformed(g) == \E i \in 1..Len(g) : ~WellFormed(g[i])

\* a run that ended with an exception
Failed(error) == [pc |-> "failed", error |-> error]

(* execute-week-4-agent-2.py: task_2_production_update *)

\* lines 209-216: load the glossary, fetch all protocols (of the rows fetched
\* the run reads chunk_text only)
ProductionFetch ==
    /\ production' = IF Malformed(glossary) THEN Failed("KeyError")
                     ELSE [pc |-> "running",
                           all_protocols |-> [d \in DocIds |->
                                                [chunk_text |-> store[d].chunk_text]],
                           i |-> 1,
                           update_results |-> <<>>,
                           batch_errors |-> 0]
    /\ repair' = Forgotten(repair)
    /\ revert' = Forgotten(revert)
    /\ markdown_fix' = Forgotten(markdown_fix)
    /\ UNCHANGED <<glossary, dryRunVars, store, analysis,
                   updated_protocols, update_results, batch, injected_level>>

ProductionStart ==
    /\ production.pc # "running"
    /\ CanStart
    /\ ProductionFetch

\* the script started while one other script is running
ProductionStartBeside ==
    /\ production.pc # "running"
    /\ Cardinality(Running) = 1
    /\ ProductionFetch

\* update_data of lines 261-267, as fields of the row (chunk_text is not one)
production_update(original_text, simplified_text, terms, before, after) ==
    [simplified_text |-> Some(simplified_text),
     glossary_terms |-> Some(terms),
     reading_level_before |-> Some(before),
     reading_level_after |-> Some(after),
     language_variant |-> "simplified"]

\* supabase.table(...).update(update_data).eq('id', id): the row with the
\* columns of update_data replaced
Updated(row, update_data) ==
    [f \in DOMAIN row |-> IF f \in DOMAIN update_data THEN update_data[f] ELSE row[f]]

\* lines 253-287: the validation gate, the update and the result
ProductionPersist(id, original_text, simplified_text, used, valid, reading_level_before, reading_level_after) ==
    IF ~valid.ok
    THEN /\ production' = AfterStep([production EXCEPT
                              !.batch_errors = @ + 1,
                              !.i = @ + 1], Len(DocOrder))
         /\ UNCHANGED <<store, injected_level>>
    ELSE /\ store' = [store EXCEPT ![id] =
                         Updated(@, production_update(original_text,
                             simplified_text, used,
                             reading_level_before, reading_level_after))]
         /\ injected_level' = [injected_level EXCEPT
                                  ![id] = Some(reading_level_after)]
         /\ production' = AfterStep([production EXCEPT
                              !.update_results = Append(@,
                                  [protocol_id |-> id,
                                   terms_injected |-> Cardinality(used),
                                   reading_level_before |-> reading_level_before,
                                   reading_level_after |-> reading_level_after]),
                              !.i = @ + 1], Len(DocOrder))

\* lines 248-260: validate the injected text and score both texts
ProductionInjected(id, original_text, simplified_text, used) ==
    ProductionPersist(id, original_text, simplified_text, used,
                      validate_tooltip_injection(original_text, simplified_text),
                      Grade(original_text), Grade(simplified_text))

\* lines 236-246 and 285-287: inject the tooltips; analyze_text_complexity
\* raises TypeError on a null text, the except clause counts the error
ProductionProtocol(id, original_text) ==
    IF original_text = None
    THEN /\ production' = AfterStep([production EXCEPT !.batch_errors = @ + 1,
                                                       !.i = @ + 1], Len(DocOrder))
         /\ UNCHANGED <<store, injected_level>>
    ELSE ProductionInjected(id, original_text,
                       inject_text(original_text, glossary, DefaultMaxTooltips),
                       DOMAIN inject_terms(original_text, glossary, DefaultMaxTooltips))

\* lines 235-287 for one protocol of the batch
ProductionStep ==
    /\ production.pc = "running"
    /\ ProductionProtocol(DocOrder[production.i],
                          production.all_protocols[DocOrder[production.i]].chunk_text)
    /\ UNCHANGED <<glossary, dryRunVars, analysis, repair, revert, markdown_fix,
                   updated_protocols, update_results, batch>>

(* identify-degraded-protocols.py: main *)

\* Python truthiness of p.get(field) for a numeric column
Truthy(v) == v # NULL /\ v[1] # 0

\* the filter of lines 184-188
IsDegraded(p) ==
    /\ Truthy(p.reading_level_before)
    /\ Truthy(p.reading_level_after)
    /\ p.reading_level_after[1] > p.reading_level_before[1]

\* lines 194-197: worst degradation first
ByDegradation(rows, ids) ==
    SortDesc(ids, [i \in 1..Len(ids) |->
                      rows[ids[i]].reading_level_after[1]
                        - rows[ids[i]].reading_level_before[1]])

\* lines 203-206
Diagnoses(rows, sorted) ==
    [i \in 1..Len(sorted) |-> diagnose_degradation(sorted[i], rows[sorted[i]])]

\* lines 184-205: filter, sort by degradation (worst first), diagnose
degraded_protocols(rows) ==
    Diagnoses(rows, ByDegradation(rows,
                        SelectSeq(DocOrder, LAMBDA d : IsDegraded(rows[d]))))

\* a run of the script; with no degraded protocol it stops on the division of
\* line 211 before the report is written
Identify ==
    /\ \E d \in DocIds : IsDegraded(store[d])
    /\ analysis' = Some(degraded_protocols(store))
    /\ UNCHANGED <<glossary, dryRunVars, store, production, repair, revert,
                   markdown_fix, updated_protocols, update_results, batch, injected_level>>

(* repair-degraded-protocols.py: main *)

\* the rows fetched for the ids of the analysis (lines 204-212); of a row the
\* repair scripts read chunk_text and simplified_text only
protocols_map(diagnoses) ==
    [d \in {diagnoses[i].protocol_id : i \in 1..Len(diagnoses)} |->
        [chunk_text |-> store[d].chunk_text,
         simplified_text |-> store[d].simplified_text]]

\* lines 189-223: load the analysis, fetch the protocols
RepairFetch ==
    /\ repair' = [pc |-> "running",
                  degraded_protocols |-> analysis[1],
                  protocols_map |-> protocols_map(analysis[1]),
                  i |-> 1,
                  repair_results |-> <<>>]
    /\ production' = Forgotten(production)
    /\ revert' = Forgotten(revert)
    /\ markdown_fix' = Forgotten(markdown_fix)
    /\ UNCHANGED <<glossary, dryRunVars, store, analysis,
                   updated_protocols, update_results, batch, injected_level>>

RepairStart ==
    /\ repair.pc # "running"
    /\ CanStart
    /\ analysis # NULL
    /\ RepairFetch

\* the script started while one other script is running
RepairStartBeside ==
    /\ repair.pc # "running"
    /\ Cardinality(Running) = 1
    /\ analysis # NULL
    /\ RepairFetch

\* update_data of lines 244-248
repair_update(repair_result) ==
    [simplified_text |-> Some(repair_result.repaired_text),
     reading_level_after |-> Some(repair_result.reading_level_repaired),
     language_variant |-> "simplified"]

\* lines 236-257: record the result, update the row if the repair is kept
RepairApply(repair_result) ==
    /\ repair' = AfterStep([repair EXCEPT
                               !.repair_results = Append(@, repair_result),
                               !.i = @ + 1],
                           Len(repair.degraded_protocols))
    /\ IF /\ repair_result.strategy_applied # "manual_review"
          /\ repair_result.should_update
       THEN store' = [store EXCEPT ![repair_result.protocol_id] =
                         Updated(@, repair_update(repair_result))]
       ELSE UNCHANGED store

\* lines 226-257 for one diagnosis
RepairDiagnosis(diagnosis) ==
    RepairApply(repair_protocol(repair.protocols_map[diagnosis.protocol_id],
                                diagnosis))

RepairStep ==
    /\ repair.pc = "running"
    /\ RepairDiagnosis(repair.degraded_protocols[repair.i])
    /\ UNCHANGED <<glossary, dryRunVars, analysis, production, revert, markdown_fix,
                   updated_protocols, update_results, batch, injected_level>>

(* repair-degraded-protocols-v2.py: main *)

\* lines 90-115
RevertFetch ==
    /\ revert' = [pc |-> "running",
                  degraded_protocols |-> analysis[1],
                  protocols_map |-> protocols_map(analysis[1]),
                  i |-> 1,
                  repair_results |-> <<>>]
    /\ production' = Forgotten(production)
    /\ repair' = Forgotten(repair)
    /\ markdown_fix' = Forgotten(markdown_fix)
    /\ UNCHANGED <<glossary, dryRunVars, store, analysis,
                   updated_protocols, update_results, batch, injected_level>>

RevertStart ==
    /\ revert.pc # "running"
    /\ CanStart
    /\ analysis # NULL
    /\ RevertFetch

\* the script started while one other script is running
RevertStartBeside ==
    /\ revert.pc # "running"
    /\ Cardinality(Running) = 1
    /\ analysis # NULL
    /\ RevertFetch

\* update_data of lines 138-143
revert_update(repair_result) ==
    [simplified_text |-> Some(repair_result.repaired_text),
     reading_level_after |-> Some(repair_result.reading_level_repaired),
     glossary_terms |-> Some({}),
     language_variant |-> "original"]

\* lines 133-150: record the result and update the row
RevertApply(repair_result) ==
    /\ revert' = AfterStep([revert EXCEPT
                               !.repair_results = Append(@, repair_result),
                               !.i = @ + 1],
                           Len(revert.degraded_protocols))
    /\ IF repair_result.should_update
       THEN store' = [store EXCEPT ![repair_result.protocol_id] =
                         Updated(@, revert_update(repair_result))]
       ELSE UNCHANGED store

\* lines 122-150 for one diagnosis
RevertDiagnosis(diagnosis) ==
    RevertApply(repair_protocol_revert(revert.protocols_map[diagnosis.protocol_id],
                                       diagnosis))

RevertStep ==
    /\ revert.pc = "running"
    /\ RevertDiagnosis(revert.degraded_protocols[revert.i])
    /\ UNCHANGED <<glossary, dryRunVars, analysis, production, repair, markdown_fix,
                   updated_protocols, update_results, batch, injected_level>>

(* fix-markdown-errors.py: main *)

\* the run after phase 1
Diagnosed(protocols_with_issues) ==
    AfterStep([pc |-> "running",
               protocols_with_issues |-> protocols_with_issues,
               i |-> 1,
               fix_results |-> <<>>],
              Len(protocols_with_issues))

\* phase 1, lines 214-238: diagnose the listed protocols
FixDiagnose ==
    /\ markdown_fix.pc # "running"
    /\ CanStart
    /\ markdown_fix' = Diagnosed(SelectSeq(PROTOCOLS_WITH_ERRORS,
                           LAMBDA d : d \in DocIds /\ has_issues(store[d].chunk_text)))
    /\ production' = Forgotten(production)
    /\ repair' = Forgotten(repair)
    /\ revert' = Forgotten(revert)
    /\ UNCHANGED <<glossary, dryRunVars, store, analysis,
                   updated_protocols, update_results, batch, injected_level>>

\* fix_protocol, lines 178-204: the update if the markers are balanced
FixApply(protocol_id, fixed_text) ==
    /\ markdown_fix' = AfterStep([markdown_fix EXCEPT
                           !.fix_results = Append(@,
                               [protocol_id |-> protocol_id,
                                success |-> is_fixed(fixed_text)]),
                           !.i = @ + 1],
                       Len(markdown_fix.protocols_with_issues))
    /\ IF is_fixed(fixed_text)
       THEN store' = [store EXCEPT ![protocol_id] =
                         Updated(@, [chunk_text |-> fixed_text])]
       ELSE UNCHANGED store

\* fix_protocol, lines 166-176: fetch the row, attempt the fix
fix_protocol(protocol_id) ==
    FixApply(protocol_id, fix_markdown_markers(store[protocol_id].chunk_text))

\* phase 2, lines 244-256: fix_protocol for one protocol with issues
FixProtocol ==
    /\ markdown_fix.pc = "running"
    /\ fix_protocol(markdown_fix.protocols_with_issues[markdown_fix.i])
    /\ UNCHANGED <<glossary, dryRunVars, analysis, production, repair, revert,
                   updated_protocols, update_results, batch, injected_level>>

(* update_protocols.py: main *)

\* the result of update_protocol and the updated_protocol of lines 322-329; the
\* import of validation_framework fails (the file is validation-framework.py),
\* so both reading levels stay 0.0
UpdateOutput(id, protocol, simplified_text, used, valid) ==
    [result |-> [protocol_id |-> id,
                 tooltips_added |-> Cardinality(used),
                 reading_level_before |-> 0,
                 reading_level_after |-> 0,
                 validation_status |-> IF valid.ok THEN "valid" ELSE "error",
                 validation_message |-> valid.msg],
     updated_protocol |-> [id |-> id,
                           chunk_text |-> protocol.chunk_text,
                           simplified_text |-> Some(simplified_text),
                           glossary_terms |-> Some(used),
                           reading_level_before |-> Some(0),
                           reading_level_after |-> Some(0),
                           language_variant |-> "clinical"]]

\* update_protocol, lines 262-266: validate the injected text
UpdateInjected(id, protocol, simplified_text, used) ==
    UpdateOutput(id, protocol, simplified_text, used,
                 validate_tooltip_injection(protocol.chunk_text, simplified_text))

\* update_protocol, lines 250-260: inject the tooltips
update_protocol(id, protocol) ==
    UpdateInjected(id, protocol,
                   inject_text(protocol.chunk_text, glossary, DefaultMaxTooltips),
                   DOMAIN inject_terms(protocol.chunk_text, glossary, DefaultMaxTooltips))

\* the two files written by main
BatchOutput(updates) ==
    /\ updated_protocols' = [i \in 1..Len(DocOrder) |-> updates[i].updated_protocol]
    /\ update_results' = [i \in 1..Len(DocOrder) |-> updates[i].result]

\* the exception update_protocol raises for a protocol, "" if it returns:
\* KeyError from the sort key of find_technical_terms (line 95) on an entry
\* without clinical_term, TypeError from re.finditer (line 103) or re.search
\* (line 207) on a null text
update_raises(protocol) ==
    IF Malformed(glossary) THEN "KeyError"
    ELSE IF protocol.chunk_text = None THEN "TypeError"
    ELSE ""

\* the protocols, in order, for which update_protocol raises
Raising(rows) == SelectSeq(DocOrder, LAMBDA d : update_raises(rows[d]) # "")

\* batch_update_protocols over an export of the table (one run, the files did
\* not exist before); the loop of lines 307-331 has no handler, so the first
\* exception ends the script before main writes a file
BatchUpdate ==
    /\ batch.pc = "idle"
    /\ IF Raising(store) # <<>>
       THEN /\ batch' = Failed(update_raises(store[Raising(store)[1]]))
            /\ UNCHANGED <<updated_protocols, update_results>>
       ELSE /\ batch' = [pc |-> "done"]
            /\ BatchOutput([i \in 1..Len(DocOrder) |->
                              update_protocol(DocOrder[i], store[DocOrder[i]])])
    /\ UNCHANGED <<glossary, dryRunVars, store, analysis, production, repair,
                   revert, markdown_fix, injected_level>>

Next ==
    \/ ProductionStart
    \/ ProductionStep
    \/ Identify
    \/ RepairStart
    \/ RepairStep
    \/ RevertStart
    \/ RevertStep
    \/ FixDiagnose
    \/ FixProtocol
    \/ BatchUpdate

Spec == Init /\ [][Next]_vars

\* the texts of the first document in the runs that interleave
InterleavedTexts == { <<"a">>, <<"c", " ", "_", " ", "b">>, <<"c", " ", "c", " ", "c">> }

InitInterleaved ==
    /\ Init
    /\ store["d1"].chunk_text \in InterleavedTexts
    /\ store["d2"].chunk_text = <<"c">>

\* the scripts hold no lock and are separate processes: a script may also be
\* started while another one is running
NextInterleaved ==
    \/ ProductionStart
    \/ ProductionStartBeside
    \/ ProductionStep
    \/ Identify
    \/ RepairStart
    \/ RepairStartBeside
    \/ RepairStep
    \/ RevertStart
    \/ RevertStartBeside
    \/ RevertStep
    \/ FixDiagnose
    \/ FixProtocol

SpecInterleaved == InitInterleaved /\ [][NextInterleaved]_vars

\* a glossary whose first three definitions hold no sentence end: "e" and "g"
\* have plain definitions, the definition of "f" is graded above 8.0; the
\* definition of "h" has two sentences of three words
DenseGlossary ==
    << Entry(<<"e">>, <<"x">>, "general"),
       Entry(<<"f">>, <<"a", "b", "a">>, "general"),
       Entry(<<"g">>, <<"x", " ", "y">>, "general"),
       Entry(<<"h">>, <<"a", "b", "a", "b", "a", " ", "a", "b", "a", "b", "a", " ",
                        "a", "b", "a", "b", "a", ".", " ",
                        "a", "b", "a", " ", "a", "b", "a", " ", "a", "b", "a">>,
             "general") >>

\* texts with up to four terms in one sentence, and one with a single term
DenseTexts ==
    { <<"e", " ", "e", " ", "e">>,
      <<"e", " ", "g", " ", "e", " ", "g">>,
      <<"e", " ", "e", " ", "f">>,
      <<"e", " ", "e", ".", " ", "e">>,
      <<"e", " ", "e", " ", "e", " ", "_">>,
      <<"x", ".", " ", "h", ".", " ", "x">>,
      <<"g", " ", "e">> }

InitDense ==
    /\ glossary = DenseGlossary
    /\ protocol_text = <<>>
    /\ max_tooltips = DefaultMaxTooltips
    /\ pc = "idle"
    /\ unique_terms = <<>>
    /\ updated_text = <<>>
    /\ terms_used = <<>>
    /\ validation = Verdict(TRUE, "", <<>>)
    /\ complexity = NULL
    /\ insertion = Idle
    /\ store \in {f \in [DocIds -> {NewRecord(t) : t \in DenseTexts}] :
                     f["d2"].chunk_text = <<"g", " ", "e">>}
    /\ analysis = NULL
    /\ production = Idle
    /\ repair = Idle
    /\ revert = Idle
    /\ markdown_fix = Idle
    /\ updated_protocols = <<>>
    /\ update_results = <<>>
    /\ batch = Idle
    /\ injected_level = [d \in DocIds |-> NULL]

SpecDense == InitDense /\ [][Next]_vars

-----------------------------------------------------------------------------
(* The two batch scripts on inputs with errors *)

\* an entry of the glossary file without its term
MalformedEntry == [user_friendly_term |-> <<"x">>, category |-> "general"]

InitBatch ==
    /\ glossary \in {StoreGlossary, Append(StoreGlossary, MalformedEntry)}
    /\ protocol_text = <<>>
    /\ max_tooltips = DefaultMaxTooltips
    /\ pc = "idle"
    /\ unique_terms = <<>>
    /\ updated_text = <<>>
    /\ terms_used = <<>>
    /\ validation = Verdict(TRUE, "", <<>>)
    /\ complexity = NULL
    /\ insertion = Idle
    /\ store \in [DocIds -> {NewRecord(t) : t \in DocTexts \cup {None}}]
    /\ analysis = NULL
    /\ production = Idle
    /\ repair = Idle
    /\ revert = Idle
    /\ markdown_fix = Idle
    /\ updated_protocols = <<>>
    /\ update_results = <<>>
    /\ batch = Idle
    /\ injected_level = [d \in DocIds |-> NULL]

NextBatch ==
    \/ ProductionStart
    \/ ProductionStep
    \/ BatchUpdate

SpecBatch == InitBatch /\ [][NextBatch]_vars

-----------------------------------------------------------------------------
(* Inputs of the selection: glossaries whose matches can have equal scores *)

SelectionUniverse ==
    { Entry(<<"a">>, <<"x", "y", "z">>, "general"),
      Entry(<<"B">>, <<"x", "y", "z", " ", "x", "y", "z">>, "general"),
      Entry(<<"B", "a">>, <<"x">>, "neuroscience") }

SelectionGlossaries ==
    {g \in SeqsUpTo(SelectionUniverse, MaxGlossary) :
        \A i, j \in 1..Len(g) : i # j => g[i] # g[j]}

\* the texts of the selection are shorter, up to three tooltips are asked for
SelectionTexts == SeqsUpTo(TextAlphabet, MaxTextLen - 2)

InitSelection ==
    /\ glossary \in SelectionGlossaries
    /\ protocol_text \in SelectionTexts
    /\ max_tooltips \in 0..(MaxTooltipsArg + 1)
    /\ pc = "start"
    /\ unique_terms = <<>>
    /\ updated_text = <<>>
    /\ terms_used = <<>>
    /\ validation = Verdict(TRUE, "", <<>>)
    /\ complexity = NULL
    /\ insertion = Idle
    /\ InitStoreVars

SpecSelection == InitSelection /\ [][NextDryRun]_vars

-----------------------------------------------------------------------------
(* Inputs of the simplification: one annotated text *)

\* definitions of one and of several sentences, of 12 and of 13 words, with
\* and without surrounding whitespace
SimplifyDefinitions ==
    { <<"x">>,
      <<"a", "b", "a", ".", " ", "a", "b", "a">>,
      <<".", " ", "x">>,
      <<"!">>,
      <<"x", " ", "x", " ", "x", " ", "x", " ", "x", " ", "x", " ",
         "x", " ", "x", " ", "x", " ", "x", " ", "x", " ", "x", " ",
         "x">>,
      <<"x", " ", "x", " ", "x", " ", "x", " ", "x", " ", "x", " ",
         "x", " ", "x", " ", "x", " ", "x", " ", "x", " ", "x", ".",
         " ", "y">>,
      <<"x", " ", "x", " ", "x", " ", "x", " ", "x", " ", "x", " ",
         "x", " ", "x", " ", "x", " ", "x", " ", "x", " ", "x", " ",
         "x", ".", " ", "y">>,
      <<" ", "x", " ">>,
      <<"x", " ", "y", ".", " ", "z", "?", " ", "w">> }

SimplifyTerms == { <<"a">>, <<" ", "B">> }

SimplifyTooltips ==
    {Tooltip(t, d) : t \in SimplifyTerms, d \in SimplifyDefinitions}

\* one or two tooltips in a text
AnnotatedTexts ==
    {pre \o first \o mid \o second \o post :
        pre \in {<<>>, <<"a", ".", " ">>},
        first \in SimplifyTooltips,
        mid \in {<<" ">>, <<".", " ", "b", " ">>},
        second \in SimplifyTooltips \cup {<<>>},
        post \in {<<>>, <<" ", "b">>}}

\* protocol_text holds the annotated text given to the function
InitSimplify ==
    /\ protocol_text \in AnnotatedTexts
    /\ glossary = <<>>
    /\ max_tooltips = DefaultMaxTooltips
    /\ pc = "annotated"
    /\ unique_terms = <<>>
    /\ updated_text = <<>>
    /\ terms_used = <<>>
    /\ validation = Verdict(TRUE, "", <<>>)
    /\ complexity = NULL
    /\ insertion = Idle
    /\ InitStoreVars

\* repair_protocol, lines 145-148: the call of extract_and_simplify_tooltips
Simplify ==
    /\ pc = "annotated"
    /\ updated_text' = extract_and_simplify_tooltips(protocol_text)
    /\ pc' = "simplified"
    /\ UNCHANGED <<glossary, protocol_text, max_tooltips, unique_terms,
                   terms_used, validation, complexity, insertion,
                   storeVars>>

NextSimplify == Simplify

SpecSimplify == InitSimplify /\ [][NextSimplify]_vars

-----------------------------------------------------------------------------
(* Inputs of the readability functions: one word or one text *)

MaxWordLen == 4

\* letters in both cases, a digit and a space
WordAlphabet == {"a", "e", "b", "E", "1", " "}

ReadabilityWords == SeqsUpTo(WordAlphabet, MaxWordLen)

\* the abbreviations as they are written in a text
AbbreviationForms ==
    {<<"D", "r", ".">>, <<"M", "r", ".">>, <<"M", "r", "s", ".">>,
     <<"M", "s", ".">>, <<"e", "t", "c", ".">>,
     <<"i", ".", "e", ".">>, <<"e", ".", "g", ".">>}

SentenceBases ==
    {<<"a", " ", "b">>, <<"a", " ", "b", ".", " ", "a", " ", "b">>,
     <<"a", " ", "b", " ", "a", "!">>}

\* the offsets of s between two words of one sentence
MidSentence(s) ==
    {p \in 2..(Len(s) - 1) :
        s[p] = " " /\ s[p - 1] \in AlphaSet /\ s[p + 1] \in AlphaSet}

\* s with the abbreviation a as a new word after offset p
WithAbbreviation(s, a, p) ==
    SubSeq(s, 1, p) \o a \o <<" ">> \o SubSeq(s, p + 1, Len(s))

\* the first two sentences of the first protocol of run_validation_test
SimpleText ==
    <<"T", "h", "i", "s", " ", "i", "s", " ", "a", " ", "s", "i",
      "m", "p", "l", "e", " ", "t", "e", "s", "t", ".", " ", "T",
      "h", "e", " ", "t", "e", "x", "t", " ", "i", "s", " ", "e",
      "a", "s", "y", " ", "t", "o", " ", "r", "e", "a", "d", ".">>

\* pairs (text, text with an abbreviation inserted, or the text itself)
ReadabilityInputs ==
    {<<w, w>> : w \in ReadabilityWords \cup {SimpleText}}
    \cup UNION {UNION {{<<b, WithAbbreviation(b, a, p)>> : p \in MidSentence(b)} :
                        a \in AbbreviationForms} : b \in SentenceBases}

InitReadability ==
    /\ \E pair \in ReadabilityInputs :
          protocol_text = pair[1] /\ updated_text = pair[2]
    /\ glossary = <<>>
    /\ max_tooltips = DefaultMaxTooltips
    /\ pc = "text"
    /\ unique_terms = <<>>
    /\ terms_used = <<>>
    /\ validation = Verdict(TRUE, "", <<>>)
    /\ complexity = NULL
    /\ insertion = Idle
    /\ InitStoreVars

\* a call count_syllables(word)
CountSyllables ==
    /\ pc = "text"
    /\ complexity' = [syllable_count |-> count_syllables(protocol_text)]
    /\ pc' = "syllables"
    /\ UNCHANGED <<glossary, protocol_text, max_tooltips, unique_terms,
                   updated_text, terms_used, validation, insertion,
                   storeVars>>

\* the calls count_sentences(text) for the text and for the text with the
\* abbreviation
CountSentences ==
    /\ pc = "text"
    /\ complexity' = [sentence_count |-> count_sentences(protocol_text),
                      with_abbreviation |-> count_sentences(updated_text)]
    /\ pc' = "sentences"
    /\ UNCHANGED <<glossary, protocol_text, max_tooltips, unique_terms,
                   updated_text, terms_used, validation, insertion,
                   storeVars>>

\* the counts and the grade level of a text
Metrics(c) ==
    [word_count |-> c[1], sentence_count |-> c[2], syllable_count |-> c[3],
     flesch_kincaid_grade |-> GradeOf(c)]

\* validate_protocol_readability, lines 339-344: the counts of the text and
\* the grade computed from them
Analyze ==
    /\ pc = "text"
    /\ complexity' = Metrics(analyze_text_complexity(protocol_text))
    /\ pc' = "analyzed"
    /\ UNCHANGED <<glossary, protocol_text, max_tooltips, unique_terms,
                   updated_text, terms_used, validation, insertion,
                   storeVars>>

NextReadability ==
    \/ CountSyllables
    \/ CountSentences
    \/ Analyze

SpecReadability == InitReadability /\ [][NextReadability]_vars

-----------------------------------------------------------------------------
(* insert_to_supabase.py: insert_protocols and insert_batch *)

MAX_RETRIES == 3
MaxProtocols == 4
MaxBatchSize == 3

\* stats as insert_protocols builds it; failed_records holds the list
\* indices (1-based) of the protocols logged, in the order of the appends
NewStats(total_protocols, batch_size) ==
    [total_protocols    |-> total_protocols,
     total_batches      |-> (total_protocols + batch_size - 1) \div batch_size,
     successful_batches |-> 0,
     failed_batches     |-> 0,
     successful_inserts |-> 0,
     failed_inserts     |-> 0,
     failed_records     |-> <<>>]

\* protocols[i:i + batch_size], as the sequence of the list indices
Batch(run) ==
    [k \in 1..(Min(run.i + run.batch_size, run.total_protocols) - run.i) |->
        run.i + k]

\* the loop "for i in range(0, total_protocols, batch_size)" moves on to
\* the next batch, or insert_protocols returns stats; log is the history
\* of the calls insert_batch(client, batch, batch_num, total_batches):
\* the attempts each one made and what it returned
NextBatchOf(run, success, stats) ==
    [run EXCEPT
        !.pc = IF run.i + run.batch_size < run.total_protocols
               THEN "batches" ELSE "done",
        !.i = run.i + run.batch_size,
        !.retry_count = 0,
        !.attempts = 0,
        !.log = Append(run.log, [batch    |-> Batch(run),
                                 attempts |-> run.attempts + 1,
                                 success  |-> success]),
        !.stats = stats]

\* the insert of the attempt did not raise: insert_batch returns
\* (True, None) and insert_protocols counts the batch as inserted
AfterSuccess(run) ==
    NextBatchOf(run, TRUE,
        [run.stats EXCEPT
            !.successful_batches = @ + 1,
            !.successful_inserts = @ + Len(Batch(run))])

\* the attempt raised: insert_batch calls itself with retry_count + 1, or
\* returns (False, error_msg) and insert_protocols counts and logs the batch
AfterFailure_OneMore(run) ==
    IF run.retry_count <= MAX_RETRIES
    THEN [run EXCEPT !.retry_count = @ + 1, !.attempts = @ + 1]
    ELSE NextBatchOf(run, FALSE,
            [run.stats EXCEPT
                !.failed_batches = @ + 1,
                !.failed_inserts = @ + Len(Batch(run)),
                !.failed_records = @ \o Batch(run)])

AfterFailure(run) ==
    IF run.retry_count < MAX_RETRIES
    THEN [run EXCEPT !.retry_count = @ + 1, !.attempts = @ + 1]
    ELSE NextBatchOf(run, FALSE,
            [run.stats EXCEPT
                !.failed_batches = @ + 1,
                !.failed_inserts = @ + Len(Batch(run)),
                !.failed_records = @ \o Batch(run)])

\* main has loaded and validated a non-empty list of protocols; --batch-size
\* is a positive number (the default is DEFAULT_BATCH_SIZE)
InitInsert ==
    /\ glossary = <<>>
    /\ protocol_text = <<>>
    /\ updated_text = <<>>
    /\ max_tooltips = DefaultMaxTooltips
    /\ pc = "insert"
    /\ unique_terms = <<>>
    /\ terms_used = <<>>
    /\ validation = Verdict(TRUE, "", <<>>)
    /\ complexity = NULL
    /\ \E n \in 1..MaxProtocols, b \in 1..MaxBatchSize, dry_run \in BOOLEAN :
          insertion = [pc |-> "start", dry_run |-> dry_run,
                       total_protocols |-> n, batch_size |-> b,
                       i |-> 0, retry_count |-> 0, attempts |-> 0,
                       log |-> <<>>, stats |-> NewStats(n, b)]
    /\ InitStoreVars

insertVars == <<glossary, protocol_text, max_tooltips, pc, unique_terms, updated_text, terms_used, validation, complexity, storeVars>>

\* insert_protocols up to the loop: a dry run returns the fresh stats
InsertStart ==
    /\ insertion.pc = "start"
    /\ insertion' = [insertion EXCEPT
          !.pc = IF insertion.dry_run \/ insertion.total_protocols <= 0
                 THEN "done" ELSE "batches"]
    /\ UNCHANGED insertVars

\* one attempt of insert_batch that inserts the batch
InsertSucceeds ==
    /\ insertion.pc = "batches"
    /\ insertion' = AfterSuccess(insertion)
    /\ UNCHANGED insertVars

\* one attempt of insert_batch that raises
InsertFails ==
    /\ insertion.pc = "batches"
    /\ insertion' = AfterFailure(insertion)
    /\ UNCHANGED insertVars

NextInsert ==
    \/ InsertStart
    \/ InsertSucceeds
    \/ InsertFails

\* every attempt returns or raises, and the loop is sequential: a step that
\* can be taken is taken
SpecInsert == InitInsert /\ [][NextInsert]_vars /\ WF_vars(NextInsert)

-----------------------------------------------------------------------------
(* Properties of the matcher and the injector *)

\* the half-open ranges of two matches share a character offset
ShareOffset(x, y) ==
    \E o \in 0..Len(protocol_text) :
        /\ x.position <= o /\ o < x.end_position
        /\ y.position <= o /\ o < y.end_position

\* every occurrence of every glossary term in the text (before overlap removal)
Candidates == technical_terms(protocol_text, glossary)

CandidateSet == {Candidates[i] : i \in 1..Len(Candidates)}

Returned(t) == \E i \in 1..Len(unique_terms) : unique_terms[i] = t

\* number of markup spans {{term||definition}} from offset p on
RECURSIVE SpansFrom(_, _)
SpansFrom(s, p) ==
    IF p >= Len(s) THEN 0
    ELSE LET m == MarkupMatch(s, p, 2)
         IN  IF s[p + 1] = "{" /\ m.ok THEN 1 + SpansFrom(s, m.close + 2)
             ELSE SpansFrom(s, p + 1)

SpanCount(s) == SpansFrom(s, 0)

\* C1 (as claimed): stripping the markup of inject_tooltips(T, G) and trimming
\* whitespace gives back T, and the validator never answers "Original content
\* altered".
C1_RoundTrip ==
    pc = "done" =>
        /\ \/ stripped(updated_text) = protocol_text
           \/ Strip(stripped(updated_text)) = Strip(protocol_text)
        /\ validation.msg # "Original content altered"

\* C3: no two matches returned by find_technical_terms share a character offset.
C3_NonOverlap ==
    pc = "done" =>
        \A i, j \in 1..Len(unique_terms) :
            i # j => ~ShareOffset(unique_terms[i], unique_terms[j])

\* C3 witness: overlapping occurrences existed, some were dropped, two or more kept
C3_Witness ==
    /\ pc = "done"
    /\ Len(unique_terms) >= 2
    /\ \E x, y \in CandidateSet : x # y /\ ShareOffset(x, y)

Preempted(L) ==
    \E i \in 1..Len(unique_terms) :
        LET K == unique_terms[i]
        IN  /\ K # L
            /\ ShareOffset(K, L)
            /\ \/ K.position < L.position
               \/ K.position = L.position /\ Len(K.term) >= Len(L.term)

SubstringOf(x, y) == \E p \in 0..Len(y) : LitAt(y, x, p)

\* c is an occurrence of the term of entry e
OccurrenceOf(c, e) == Lower(c.term) = Lower(e.clinical_term)

Inside(c, l) == l.position <= c.position /\ c.end_position <= l.end_position

\* l is an occurrence of the longer term eL, which contains the shorter term eS,
\* and nothing overlaps l but occurrences of eS inside it
NestedCase(l, eL, eS) ==
    /\ OccurrenceOf(l, eL)
    /\ Len(eS.clinical_term) < Len(eL.clinical_term)
    /\ SubstringOf(Lower(eS.clinical_term), Lower(eL.clinical_term))
    /\ \A c \in CandidateSet :
          ShareOffset(c, l) => \/ c = l
                               \/ OccurrenceOf(c, eS) /\ Inside(c, l)

GlossaryEntries == {glossary[i] : i \in 1..Len(glossary)}

\* C5: for an occurrence of a longer term that contains a shorter glossary term,
\* with nothing else overlapping it, the longer term is returned for the span
\* and no occurrence of the shorter term inside it is returned.
C5_NestedLongest ==
    pc = "done" =>
        \A l \in CandidateSet : \A eL, eS \in GlossaryEntries :
            NestedCase(l, eL, eS)
                => /\ Returned(l)
                   /\ \A c \in CandidateSet :
                         (OccurrenceOf(c, eS) /\ Inside(c, l)) => ~Returned(c)

\* C5 witness: the shorter term does occur inside a returned longer occurrence
C5_Witness ==
    /\ pc = "done"
    /\ \E l \in CandidateSet : \E eL, eS \in GlossaryEntries :
          /\ NestedCase(l, eL, eS)
          /\ \E c \in CandidateSet : OccurrenceOf(c, eS) /\ Inside(c, l)
          /\ Returned(l)

\* C6: the text returned by inject_tooltips holds at most max_tooltips spans.
C6_BoundedInjection ==
    pc = "done" =>
        /\ SpanCount(updated_text) <= max_tooltips
        /\ Count(updated_text, <<"{", "{">>) <= max_tooltips

\* C6 witness: more matches than max_tooltips, and max_tooltips spans injected
C6_Witness ==
    /\ pc = "done"
    /\ max_tooltips >= 1
    /\ Len(unique_terms) > max_tooltips
    /\ SpanCount(updated_text) = max_tooltips

\* some glossary term occurs in the text, though not as a whole word
NearMiss ==
    \E e \in GlossaryEntries :
        SubstringOf(Lower(e.clinical_term), Lower(protocol_text))

\* C17: when find_technical_terms finds no match, inject_tooltips returns the
\* input text unchanged with an empty term mapping, whatever max_tooltips is.
C17_IdentityCase ==
    (pc = "done" /\ unique_terms = <<>>) =>
        /\ updated_text = protocol_text
        /\ DOMAIN terms_used = {}

\* C17 witness: a glossary term occurs inside a word of a non-empty text, no
\* term matched, max_tooltips is positive, and the text came back unchanged
C17_Witness ==
    /\ pc = "done"
    /\ unique_terms = <<>>
    /\ protocol_text # <<>>
    /\ NearMiss
    /\ max_tooltips >= 1
    /\ updated_text = protocol_text

-----------------------------------------------------------------------------
(* Properties of the stored documents *)

\* a step of the repair run / of the revert run
IsRepairStep == repair.pc = "running" /\ repair' # repair
IsRevertStep == revert.pc = "running" /\ revert' # revert

\* the document of the diagnosis a running repair / revert run is at
RepairDoc == repair.degraded_protocols[repair.i].protocol_id
RevertDoc == revert.degraded_protocols[revert.i].protocol_id

\* C2: once a repair or a revert run has processed a document, the annotated
\* text stored for it has a grade level no higher than that of its original
\* text (a result worse than the original is never persisted)
C2_NeverWorseThanOriginal ==
    [][/\ IsRepairStep =>
            Grade(GetText(store'[RepairDoc].simplified_text))
              <= Grade(store'[RepairDoc].chunk_text)
       /\ IsRevertStep =>
            Grade(GetText(store'[RevertDoc].simplified_text))
              <= Grade(store'[RevertDoc].chunk_text)]_vars

\* C7: no path persists a text that fails validate_tooltip_injection: every
\* annotated text in the batch update's output file and every annotated text
\* stored by the production update or the repair validates against the
\* original text of its document
C7_ValidationGate ==
    /\ \A i \in 1..Len(updated_protocols) :
          validate_tooltip_injection(updated_protocols[i].chunk_text,
                                     GetText(updated_protocols[i].simplified_text)).ok
    /\ \A d \in DocIds :
          store[d].language_variant = "simplified" =>
              validate_tooltip_injection(store[d].chunk_text,
                                         GetText(store[d].simplified_text)).ok

\* C8: for a document whose grade after injection is above its grade before,
\* after a step of the repair run (repair_protocol and the update) the grade
\* level of the annotated text stored for it does not exceed the grade level
\* of the text the injection stored
C8_MonotonicRepair ==
    [][(/\ IsRepairStep
        /\ GetOrZero(store[RepairDoc].reading_level_after)
             > GetOrZero(store[RepairDoc].reading_level_before))
       => Grade(GetText(store'[RepairDoc].simplified_text))
            <= GetOrZero(injected_level[RepairDoc])]_vars

\* C9: for every degraded document the revert run stores a text whose
\* recomputed grade level equals the recorded reading_level_before, and the
\* revert is always persisted
C9_RevertPolicy ==
    [][IsRevertStep =>
          /\ store'[RevertDoc].language_variant = "original"
          /\ store'[RevertDoc].simplified_text = Some(store'[RevertDoc].chunk_text)
          /\ Grade(GetText(store'[RevertDoc].simplified_text))
               = revert.degraded_protocols[revert.i].reading_level_before]_vars

\* C10: no operation on the store changes the chunk_text of a document
C10_OriginalNeverOverwritten ==
    [][\A d \in DocIds : store'[d].chunk_text = store[d].chunk_text]_vars

-----------------------------------------------------------------------------
(* Properties of the validator *)

\* the four checks of the validator, each stated on its own
NestedMarkup(s) ==
    \E i, j \in 0..(Len(s) - 2) :
        /\ i + 2 <= j
        /\ LitAt(s, <<"{", "{">>, i)
        /\ LitAt(s, <<"{", "{">>, j)
        /\ \A k \in (i + 3)..j : s[k] # "}"

EqualCounts(s) == Count(s, <<"{", "{">>) = Count(s, <<"}", "}">>)

RoundTrip(o, s) == stripped(s) = o \/ Strip(stripped(s)) = Strip(o)

EvenMarkers(s) == \A i \in 1..Len(Markers) : Count(s, Markers[i]) % 2 = 0

\* the reason of the first check that fails, "Valid" if none does
FirstFailure(o, s) ==
    IF NestedMarkup(s) THEN "Nested tooltips detected"
    ELSE IF ~EqualCounts(s) THEN "Unbalanced tooltips"
    ELSE IF ~RoundTrip(o, s) THEN "Original content altered"
    ELSE IF ~EvenMarkers(s) THEN "Unbalanced markdown marker"
    ELSE "Valid"

\* C11: the validator reports the reason of the first of its four checks
\* (nested markup, equal counts of {{ and }}, round trip with the original,
\* even count of every markdown marker) that fails, whatever the later checks
\* would say, and it passes exactly when all four checks hold.
C11_FirstFailureReported ==
    pc = "validated" =>
        /\ validation.msg = FirstFailure(protocol_text, updated_text)
        /\ validation.ok <=> (/\ ~NestedMarkup(updated_text)
                              /\ EqualCounts(updated_text)
                              /\ RoundTrip(protocol_text, updated_text)
                              /\ EvenMarkers(updated_text))
        /\ (updated_text = VagusNested => validation.msg = "Nested tooltips detected")
        /\ (protocol_text = VagusOriginal /\ updated_text = VagusAnnotated
               => validation.ok)

\* a text that fails the first check and two later ones has been validated
C11_Witness ==
    /\ pc = "validated"
    /\ NestedMarkup(updated_text)
    /\ ~RoundTrip(protocol_text, updated_text)
    /\ ~EvenMarkers(updated_text)
    /\ validation.msg = "Nested tooltips detected"

-----------------------------------------------------------------------------
(* Properties of the repair run *)

RepairPriority == <<"simplify_language", "remove_tooltips", "manual_review">>

\* the repair strategies of the priority order that a diagnosis lists
Listed(diagnosis) ==
    {k \in 1..Len(RepairPriority) : Contains(diagnosis.repair_strategies, RepairPriority[k])}

\* C12: for every diagnosis of diagnose_degradation the repair applies exactly
\* one strategy, the first of simplify_language, remove_tooltips,
\* manual_review that the diagnosis lists, and strategy_applied is never
\* left empty.
C12_OneStrategyApplied ==
    repair.pc # "idle" =>
        \A i \in 1..Len(repair.repair_results) :
            /\ Listed(repair.degraded_protocols[i]) # {}
            /\ \E k \in Listed(repair.degraded_protocols[i]) :
                  /\ \A j \in Listed(repair.degraded_protocols[i]) : k <= j
                  /\ repair.repair_results[i].strategy_applied = RepairPriority[k]

-----------------------------------------------------------------------------
(* Properties of the classification *)

\* the ids of the documents the analysis lists
Selected(report) == {report[1][i].protocol_id : i \in 1..Len(report[1])}

\* both scores of the row are recorded and the second is the greater
ScoredWorse(row) ==
    /\ row.reading_level_before # NULL
    /\ row.reading_level_after # NULL
    /\ row.reading_level_after[1] > row.reading_level_before[1]

\* C14: a run of the identification selects and diagnoses exactly the stored
\* documents whose reading_level_after is greater than their
\* reading_level_before, for all values of the two scores including 0.
C14_Classification ==
    [][Identify => \A d \in DocIds : ScoredWorse(store[d]) <=> d \in Selected(analysis')]_vars

-----------------------------------------------------------------------------
(* Properties of the reports *)

\* the number of entries of a list of results that report the document
Entries(results, id) ==
    Cardinality({i \in 1..Len(results) : results[i].protocol_id = id})

\* C15: every document that enters a production update or a repair run has
\* exactly one entry in the results of that run, documents that fail
\* validation and documents whose repair did not help included.
C15_EveryDocumentReported ==
    /\ production.pc = "done" =>
          \A d \in DOMAIN production.all_protocols :
              Entries(production.update_results, d) = 1
    /\ repair.pc = "done" =>
          \A i \in 1..Len(repair.degraded_protocols) :
              Entries(repair.repair_results, repair.degraded_protocols[i].protocol_id) = 1

-----------------------------------------------------------------------------
(* Properties of the batches on inputs with errors *)

\* the production update wrote the document, or refused it at the validation
Processed(d) ==
    \/ Entries(production.update_results, d) = 1
    \/ ~validate_tooltip_injection(
            production.all_protocols[d].chunk_text,
            inject_text(production.all_protocols[d].chunk_text, glossary,
                        DefaultMaxTooltips)).ok

\* C16: a malformed glossary entry or a document with a missing (null) text
\* fails only that record: neither batch_update_protocols nor
\* task_2_production_update is aborted, and every other document of the batch
\* is processed and written.
C16_InputErrorsAreLocal ==
    /\ batch.pc # "failed"
    /\ production.pc # "failed"
    /\ batch.pc = "done" =>
          \A d \in DocIds : store[d].chunk_text # None =>
              \E i \in 1..Len(updated_protocols) : updated_protocols[i].id = d
    /\ production.pc = "done" =>
          \A d \in DocIds : production.all_protocols[d].chunk_text # None =>
              Processed(d)

-----------------------------------------------------------------------------
(* Properties of the readability functions *)

\* the lower-cased, letters-only form of a word
Letters(word) == SelectSeq(Lower(word), LAMBDA c : c \in LowerSet)

\* the number of maximal runs of vowels of w
VowelRuns(w) ==
    Cardinality({i \in 1..Len(w) :
                    w[i] \in VowelSet /\ (i = 1 \/ w[i - 1] \notin VowelSet)})

SilentE(w) == w # <<>> /\ w[Len(w)] = "e" /\ VowelRuns(w) > 1

\* the runs of the letters of the word, less the silent 'e', floored at 1
FlooredRuns(word) ==
    Max(1, VowelRuns(Letters(word)) - (IF SilentE(Letters(word)) THEN 1 ELSE 0))

C19_AbbreviationsProtected ==
    pc = "sentences" =>
        complexity.with_abbreviation = complexity.sentence_count

\* C20 as stated: for "This is a simple test. The text is easy to read." the
\* analysis yields word count 10 and sentence count 2, and the grade level
\* computed from the counts is at most 2.0 (200 hundredths).
C20_TenWords ==
    (pc = "analyzed" /\ protocol_text = SimpleText) =>
        /\ complexity.word_count = 10
        /\ complexity.sentence_count = 2
        /\ complexity.flesch_kincaid_grade <= 200

\* C20: for "This is a simple test. The text is easy to read." the analysis
\* yields word count 11 and sentence count 2, and the grade level computed
\* from the counts is at most 2.0.
C20_ElevenWords ==
    (pc = "analyzed" /\ protocol_text = SimpleText) =>
        /\ complexity.word_count = 11
        /\ complexity.sentence_count = 2
        /\ complexity.flesch_kincaid_grade <= 200

\* C20 witness: the text has been analyzed; its 12 syllables give grade -0.57
C20_Witness ==
    /\ pc = "analyzed"
    /\ protocol_text = SimpleText
    /\ complexity.syllable_count = 12
    /\ complexity.flesch_kincaid_grade = 0 - 57

-----------------------------------------------------------------------------
(* Properties of the variant field *)

\* C21: the variant field of every document record, in the table and in the
\* file of updated protocols, is "clinical" or "simplified".
C21_VariantDomain ==
    /\ \A d \in DocIds : store[d].language_variant \in {"clinical", "simplified"}
    /\ \A i \in 1..Len(updated_protocols) :
          updated_protocols[i].language_variant \in {"clinical", "simplified"}

-----------------------------------------------------------------------------
(* Properties of interleaved runs *)

\* C22: a step of the repair run that writes to the store finds there the
\* annotated text the run fetched for the document: the run never writes a
\* result computed from a text that another run has replaced since.
C22_FreshBaseline ==
    [][(IsRepairStep /\ store' # store) =>
          store[RepairDoc].simplified_text
              = repair.protocols_map[RepairDoc].simplified_text]_vars

-----------------------------------------------------------------------------
(* Properties of the diagnosis *)

\* the tooltips of an annotated text, from offset p on: the offsets of the
\* span [start, stop), its term and its definition
RECURSIVE InjectedFrom(_, _)
InjectedFrom(s, p) ==
    IF p >= Len(s) THEN <<>>
    ELSE IF s[p + 1] = "{" /\ MarkupMatch(s, p, 2).ok
    THEN <<[start |-> p,
            stop |-> MarkupMatch(s, p, 2).close + 2,
            term |-> Slice(s, p + 2, MarkupMatch(s, p, 2).bar),
            definition |-> Slice(s, MarkupMatch(s, p, 2).def,
                                 MarkupMatch(s, p, 2).close)]>>
           \o InjectedFrom(s, MarkupMatch(s, p, 2).close + 2)
    ELSE InjectedFrom(s, p + 1)

Injected(s) == InjectedFrom(s, 0)

\* some definition satisfies Q
SomeDefinition(s, Q(_)) ==
    \E i \in 1..Len(Injected(s)) : Q(Injected(s)[i].definition)

\* three tooltips follow one another with no sentence end between them
\* (the characters of a definition end no sentence of the text)
DenseSentence(s) ==
    \E i \in 1..(Len(Injected(s)) - 2) :
        \A q \in Injected(s)[i].stop..(Injected(s)[i + 2].start - 1) :
            s[q + 1] \in EndSet =>
                /\ q >= Injected(s)[i + 1].start
                /\ q < Injected(s)[i + 1].stop

Lists(diagnosis, strategy) == Contains(diagnosis.repair_strategies, strategy)

\* the diagnosis is the one C23 states for the annotated text
DiagnosedAsStated(diagnosis, text) ==
    /\ Lists(diagnosis, "shorten_definitions")
         <=> SomeDefinition(text, LAMBDA d : Len(SplitFrom(d, 0)) > 15)
    /\ Lists(diagnosis, "simplify_language")
         <=> SomeDefinition(text, LAMBDA d : Grade(d) > 800)
    /\ Lists(diagnosis, "remove_tooltips") <=> DenseSentence(text)
    /\ Lists(diagnosis, "manual_review")
         <=> /\ ~Lists(diagnosis, "shorten_definitions")
             /\ ~Lists(diagnosis, "simplify_language")
             /\ ~Lists(diagnosis, "remove_tooltips")

\* C23: every diagnosis written by the identification lists long tooltips
\* exactly when some injected definition has more than 15 words, complex
\* tooltips exactly when some injected definition has a grade above 8.0, high
\* density exactly when some sentence of the annotated text holds 3 or more
\* tooltips, and manual_review exactly when none of the three matched.
C23_Diagnosis ==
    [][Identify =>
          \A i \in 1..Len(analysis'[1]) :
              DiagnosedAsStated(
                  analysis'[1][i],
                  GetText(store[analysis'[1][i].protocol_id].simplified_text))]_vars

-----------------------------------------------------------------------------
(* Properties of the selection *)

\* the matches inject_tooltips annotates
SelectedMatches ==
    {top_terms(protocol_text, glossary, max_tooltips)[i] :
        i \in 1..Len(top_terms(protocol_text, glossary, max_tooltips))}

FoundMatches == {unique_terms[i] : i \in 1..Len(unique_terms)}

\* ten times the score (1000 - position)*0.4 + len(definition)*0.3
\* + categoryWeight*0.3
StatedScore(t) ==
    4 * (1000 - t.position) + 3 * Len(t.definition)
      + (IF t.category = "neuroscience" THEN 300 ELSE 150)

\* C24: inject_tooltips annotates min(max_tooltips, number of matches)
\* matches; no match left out has a higher score than an annotated one, and
\* of two matches of equal score the earlier one is preferred.
C24_Selection ==
    pc = "done" =>
        /\ SelectedMatches \subseteq FoundMatches
        /\ Cardinality(SelectedMatches) = Min(max_tooltips, Len(unique_terms))
        /\ \A sel \in SelectedMatches : \A out \in FoundMatches \ SelectedMatches :
              /\ StatedScore(out) <= StatedScore(sel)
              /\ StatedScore(out) = StatedScore(sel) => sel.position < out.position

-----------------------------------------------------------------------------
(* Properties of the simplification *)

\* the text with every tooltip replaced by one mark
RECURSIVE OutsideFrom(_, _)
OutsideFrom(s, p) ==
    IF p >= Len(s) THEN <<>>
    ELSE IF s[p + 1] = "{" /\ MarkupMatch(s, p, 2).ok
    THEN <<"<tooltip>">> \o OutsideFrom(s, MarkupMatch(s, p, 2).close + 2)
    ELSE <<s[p + 1]>> \o OutsideFrom(s, p + 1)

\* the definition up to its first '.', '!' or '?'
FirstSentence(d) ==
    IF \A i \in 1..Len(d) : d[i] \notin EndSet THEN d
    ELSE SubSeq(d, 1, (CHOOSE i \in 1..Len(d) :
                          /\ d[i] \in EndSet
                          /\ \A j \in 1..(i - 1) : d[j] \notin EndSet) - 1)

\* a sentence cut to its first 12 words
CutToWords(f) ==
    IF Len(SplitFrom(f, 0)) > 12 THEN Join(SubSeq(SplitFrom(f, 0), 1, 12))
    ELSE Strip(f)

Ellipsis == <<".", ".", ".">>

EndsWithEllipsis(d) == Len(d) >= 3 /\ SubSeq(d, Len(d) - 2, Len(d)) = Ellipsis

\* the new definition is the first sentence of the previous one cut to 12
\* words, with an ellipsis whenever a part of the previous one was dropped
SimplifiedAsStated(previous, new) ==
    /\ new \in {CutToWords(FirstSentence(previous)),
                 CutToWords(FirstSentence(previous)) \o Ellipsis}
    /\ CutToWords(FirstSentence(previous)) # Strip(previous)
         => EndsWithEllipsis(new)

\* C25: after extract_and_simplify_tooltips the text holds the same number of
\* tooltips with the same terms at the same places, the text outside the
\* tooltips is unchanged, every definition is the first sentence of the
\* previous definition cut to at most 12 words, and it ends with an ellipsis
\* whenever a part of the previous definition was dropped.
C25_SimplifyLanguage ==
    pc = "simplified" =>
        /\ Len(Injected(updated_text)) = Len(Injected(protocol_text))
        /\ OutsideFrom(updated_text, 0) = OutsideFrom(protocol_text, 0)
        /\ \A i \in 1..Len(Injected(protocol_text)) :
              i <= Len(Injected(updated_text)) =>
                /\ Injected(updated_text)[i].term
                     = Strip(Injected(protocol_text)[i].term)
                /\ SimplifiedAsStated(Injected(protocol_text)[i].definition,
                                      Injected(updated_text)[i].definition)

-----------------------------------------------------------------------------
(* Properties of the insertion *)

\* the protocols of the batches that insert_batch gave up on, in order
RECURSIVE FailedOf(_)
FailedOf(log) ==
    IF log = <<>> THEN <<>>
    ELSE (IF Head(log).success THEN <<>> ELSE Head(log).batch)
         \o FailedOf(Tail(log))

InsertBounded ==
    insertion.pc \in {"batches", "done"} =>
        /\ insertion.attempts <= MAX_RETRIES
        /\ \A k \in 1..Len(insertion.log) :
              /\ insertion.log[k].attempts <= MAX_RETRIES + 1
              /\ ~insertion.log[k].success =>
                    insertion.log[k].attempts = MAX_RETRIES + 1

InsertCounted ==
    (insertion.pc = "done" /\ ~insertion.dry_run) =>
        /\ insertion.stats.successful_inserts + insertion.stats.failed_inserts
              = insertion.total_protocols
        /\ insertion.stats.failed_records = FailedOf(insertion.log)
        /\ Len(insertion.stats.failed_records) = insertion.stats.failed_inserts

-----------------------------------------------------------------------------
(* Properties of the density repair *)

\* the row of the repair step as the repair script fetched it
FetchedRow == repair.protocols_map[RepairDoc]

\* the diagnosis of the repair step was computed on the annotated text that
\* the repair script fetched
SameAnnotatedText ==
    /\ FetchedRow.simplified_text # NULL
    /\ repair.degraded_protocols[repair.i].repair_strategies
          = repair_strategies(GetText(FetchedRow.simplified_text))

\* the diagnosis lists remove_tooltips and not simplify_language
DensityOnly ==
    /\ Contains(repair.degraded_protocols[repair.i].repair_strategies, "remove_tooltips")
    /\ ~Contains(repair.degraded_protocols[repair.i].repair_strategies, "simplify_language")

\* C27: a repair step for a diagnosis that lists remove_tooltips and not
\* simplify_language, computed on the annotated text the repair fetched,
\* applies remove_tooltips, finds no definition graded above 8.0, returns the
\* text unchanged with should_update false and writes nothing
C27_DensityNeverRepaired ==
    [][(IsRepairStep /\ SameAnnotatedText /\ DensityOnly) =>
          LET result == repair'.repair_results[Len(repair'.repair_results)]
          IN  /\ result.strategy_applied = "remove_tooltips"
              /\ \A i \in 1..Len(extract_tooltips_from_text(GetText(FetchedRow.simplified_text))) :
                    extract_tooltips_from_text(GetText(FetchedRow.simplified_text))[i].reading_level
                       <= RemoveThreshold
              /\ result.repaired_text = GetText(FetchedRow.simplified_text)
              /\ ~result.should_update
              /\ store' = store]_vars

\* the repair run has met a document degraded by three tooltips in one
\* sentence only, and has left its annotated text as it was
C27_Witness ==
    /\ repair.pc \in {"running", "done"}
    /\ \E i \in 1..Len(repair.repair_results) :
          /\ repair.repair_results[i].strategy_applied = "remove_tooltips"
          /\ repair.degraded_protocols[i].repair_strategies = <<"remove_tooltips">>
          /\ max_tooltips_per_sentence(repair.repair_results[i].repaired_text) >= 3
          /\ store[repair.repair_results[i].protocol_id].simplified_text
                = Some(repair.repair_results[i].repaired_text)
          /\ ~repair.repair_results[i].should_update

-----------------------------------------------------------------------------
(* Properties of the marker check *)

\* no definition of the glossary holds a marker character
PlainDefinitions(g) ==
    \A i \in 1..Len(g) : \A k \in 1..Len(g[i].user_friendly_term) :
        g[i].user_friendly_term[k] \notin {"*", "_"}

\* C28: when the original text holds an odd number of one of the markers
\* and the definitions add no marker, validation of the injected text fails
\* with "Unbalanced markdown marker", for every glossary and also when no
\* tooltip was injected
C28_OddMarkerRejected ==
    (pc = "done" /\ OddMarker(protocol_text) # 0 /\ PlainDefinitions(glossary)) =>
        /\ ~validation.ok
        /\ validation.msg = "Unbalanced markdown marker"

\* when the original text holds an odd number of one of the markers and the
\* definitions add no marker, validation of the injected text fails
C28_OddMarkerFails ==
    (pc = "done" /\ OddMarker(protocol_text) # 0 /\ PlainDefinitions(glossary)) =>
        ~validation.ok

-----------------------------------------------------------------------------
(* Properties of the term mapping *)

\* the surface strings of the matches inject_tooltips annotates
SelectedSurfaces == {t.term : t \in SelectedMatches}

\* the same surface string is annotated at two positions
AnnotatedTwice ==
    \E x, y \in SelectedMatches : x.position # y.position /\ x.term = y.term

\* C29: the mapping returned by inject_tooltips has one entry per distinct
\* surface string among the selected matches; its size is at most the number
\* of markup spans of the returned text, and strictly smaller when a surface
\* string is annotated at two or more positions; every key is the term of a
\* span of the returned text.
C29_TermMapping ==
    pc = "done" =>
        /\ DOMAIN terms_used = SelectedSurfaces
        /\ Cardinality(DOMAIN terms_used) <= SpanCount(updated_text)
        /\ AnnotatedTwice => Cardinality(DOMAIN terms_used) < SpanCount(updated_text)
        /\ \A key \in DOMAIN terms_used :
              \E i \in 1..Len(Injected(updated_text)) :
                  Injected(updated_text)[i].term = key

\* a text returned with two spans of one surface string and one entry
C29_Witness ==
    /\ pc = "done"
    /\ AnnotatedTwice
    /\ SpanCount(updated_text) = 2
    /\ Cardinality(DOMAIN terms_used) = 1

-----------------------------------------------------------------------------
(* Properties of the improvement threshold *)

\* the result a repair step appends
StepResult == repair'.repair_results[Len(repair'.repair_results)]

\* the improvement of a result, in hundredths of a grade, is above 0.10 and
\* its strategy is not manual_review
WriteStated(result) ==
    /\ result.strategy_applied # "manual_review"
    /\ result.reading_level_after - result.reading_level_repaired > 10

\* C30: a repair step writes the repaired text, its grade and the variant
\* exactly when the strategy applied is not manual_review and the grade after
\* injection minus the repaired grade, in hundredths, is above 0.10; an
\* improvement of 0.10 or less, or a step in which no strategy branch
\* applied, leaves the store as it was.
C30_WriteIffImproved ==
    [][IsRepairStep =>
          /\ IF WriteStated(StepResult)
             THEN store' = [store EXCEPT ![StepResult.protocol_id] =
                               Updated(@, repair_update(StepResult))]
             ELSE store' = store
          /\ StepResult.strategy_applied = "None" => store' = store]_vars

\* the same for the steps in which a strategy branch applied
C30_WriteIffImprovedByStrategy ==
    [][(IsRepairStep /\ StepResult.strategy_applied # "None") =>
          IF WriteStated(StepResult)
          THEN store' = [store EXCEPT ![StepResult.protocol_id] =
                            Updated(@, repair_update(StepResult))]
          ELSE store' = store]_vars

====
